---- MODULE Spec2Model ----
(***************************************************************************)
(* A model of the impact-physics core (src/src/lib/meteor.ts) and of the   *)
(* geodesic ring builder (src/src/components/map/MapboxMap.tsx).           *)
(*                                                                         *)
(* Numbers of meteor.ts are IEEE doubles.  A double is modelled as a       *)
(* record [k, s, l]:                                                       *)
(*   k = "nan"                      NaN                                    *)
(*   k = "inf",  s = 1 or -1        +Infinity, -Infinity                   *)
(*   k = "zero"                     0 (the sign of a zero is never read by *)
(*                                  meteor.ts: it divides by constants     *)
(*                                  only, and Math.max(0, -0) is 0)        *)
(*   k = "fin",  s = 1 or -1, l     a finite non-zero number of sign s and *)
(*                                  magnitude 10^(l / 1000)                *)
(* meteor.ts only multiplies, divides, raises to constant powers, compares *)
(* and clamps, so the magnitude is held by its decimal logarithm, in       *)
(* thousandths of a decade.  A product adds logarithms, a power scales     *)
(* them; a logarithm above that of Number.MAX_VALUE overflows to Infinity  *)
(* and one below that of Number.MIN_VALUE underflows to 0.                 *)
(***************************************************************************)
EXTENDS Integers, Sequences, FiniteSets

\* log10(Number.MAX_VALUE) = 308.2547 and log10(Number.MIN_VALUE) = -323.3062,
\* in thousandths of a decade.
MaxLog == 308254
MinLog == -323306

NaN == [k |-> "nan", s |-> 0, l |-> 0]
Zero == [k |-> "zero", s |-> 0, l |-> 0]
PosInf == [k |-> "inf", s |-> 1, l |-> 0]
NegInf == [k |-> "inf", s |-> -1, l |-> 0]
Inf(sgn) == [k |-> "inf", s |-> sgn, l |-> 0]

\* The double of sign sgn and magnitude 10^(lg / 1000), after overflow and
\* underflow.
Fin(sgn, lg) ==
  IF lg > MaxLog THEN Inf(sgn)
  ELSE IF lg < MinLog THEN Zero
  ELSE [k |-> "fin", s |-> sgn, l |-> lg]

\* A positive literal of the source, given by its logarithm.
Lit(lg) == Fin(1, lg)

IsNaN(x) == x.k = "nan"
\* isFinite(x)
isFinite(x) == x.k \in {"zero", "fin"}

\* The sign of x as -1, 0, 1 (NaN excluded by the callers).
Sign(x) == IF x.k = "zero" THEN 0 ELSE x.s

\* x < y on doubles: false when either is NaN.
Lt(x, y) ==
  IF IsNaN(x) \/ IsNaN(y) THEN FALSE
  ELSE IF Sign(x) # Sign(y) THEN Sign(x) < Sign(y)
  ELSE IF Sign(x) = 0 THEN FALSE
  ELSE IF x.k = "inf" /\ y.k = "inf" THEN FALSE
  ELSE IF x.k = "inf" THEN x.s = -1
  ELSE IF y.k = "inf" THEN y.s = 1
  ELSE IF x.s = 1 THEN x.l < y.l
  ELSE x.l > y.l

\* x = y on doubles (==): false when either is NaN.
Eq(x, y) == ~IsNaN(x) /\ ~IsNaN(y) /\ x = y
\* x <= y, x > y, x >= y on doubles.
Le(x, y) == Lt(x, y) \/ Eq(x, y)
Gt(x, y) == Lt(y, x)
Ge(x, y) == Le(y, x)

\* x * y
Mul(x, y) ==
  IF IsNaN(x) \/ IsNaN(y) THEN NaN
  ELSE IF x.k = "inf" \/ y.k = "inf"
    THEN IF x.k = "zero" \/ y.k = "zero" THEN NaN ELSE Inf(x.s * y.s)
  ELSE IF x.k = "zero" \/ y.k = "zero" THEN Zero
  ELSE Fin(x.s * y.s, x.l + y.l)

\* x / c for a positive finite literal c.
DivLit(x, c) ==
  IF IsNaN(x) THEN NaN
  ELSE IF x.k \in {"inf", "zero"} THEN x
  ELSE Fin(x.s, x.l - c.l)

\* Math.max(x, y): NaN when either is NaN.
MathMax(x, y) ==
  IF IsNaN(x) \/ IsNaN(y) THEN NaN ELSE IF Lt(x, y) THEN y ELSE x

\* Math.min(x, y): NaN when either is NaN.
MathMin(x, y) ==
  IF IsNaN(x) \/ IsNaN(y) THEN NaN ELSE IF Lt(y, x) THEN y ELSE x

\* Math.pow(x, num / den) for a constant exponent num / den # 0 in lowest
\* terms, den > 0.  A negative base has a power only for an integer exponent;
\* -Infinity keeps its sign only for an odd integer exponent.
MathPow(x, num, den) ==
  LET odd == den = 1 /\ num % 2 = 1
      sgn == IF x.s = -1 /\ odd THEN -1 ELSE 1
  IN IF IsNaN(x) THEN NaN
     ELSE IF x.k = "zero" THEN (IF num > 0 THEN Zero ELSE PosInf)
     ELSE IF x.k = "inf" THEN (IF num > 0 THEN Inf(sgn) ELSE Zero)
     ELSE IF x.s = -1 /\ den # 1 THEN NaN
     ELSE Fin(sgn, (x.l * num) \div den)

\* clamp(n, min, max) = Math.min(max, Math.max(min, n))
clamp(n, min, max) == MathMin(max, MathMax(min, n))

(***************************************************************************)
(* The literals of meteor.ts, each by its decimal logarithm in thousandths *)
(* of a decade (log10(4.184e9) = 9.6216 is 9622).                          *)
(***************************************************************************)
LOG_TWO == 301              \* 2 (and 0.5 = 1 / 2)
LOG_FOUR_THIRDS_PI == 622   \* (4 / 3) * Math.PI = 4.18879
LOG_TNT_JOULES == 9622      \* 4.184e9
LOG_1E3 == 3000             \* 1e3, 1000
LOG_1E6 == 6000             \* 1e6
LOG_KRAKATOA == 2301        \* 200
LOG_SEVERE == 653           \* 4.5
LOG_THIRD == 903            \* 8.0
LOG_SECOND == 1114          \* 13.0
LOG_GUARD == 41             \* 1.1
LOG_NOISE == 1176           \* 15.0
LOG_OZONE == 699            \* 5
LOG_OZONE_CAP == 1699       \* 50
LOG_PERCENT == 2000         \* 100
LOG_ACID_SEVERE == 18000    \* 1e18
LOG_ACID_REGIONAL == 16000  \* 1e16
LOG_ANGLE_MIN == -1000      \* 0.1
LOG_ANGLE_MAX == 1954       \* 90
LOG_PI == 497               \* Math.PI
LOG_180 == 2255             \* 180
LOG_K1 == 65                \* 1.161
LOG_CORRECTION == 114       \* 1.3
LOG_TARGET_DENSITY == 3431  \* 2700
LOG_GRAVITY == 992          \* 9.81

\* Math.sin on the radians calculateCraterDiameter passes: the clamped angle
\* lies in [0.1, 90] degrees.  Below 10^-1.5 rad sin(x) is x at this
\* resolution; above, the logarithm of the sine is tabulated for the angles
\* 5, 10, 18, 20, 25, 30, 31.6, 45, 60 and 90 degrees
\* (log10(sin(45 deg)) = -0.1505 is -151).
SinLog ==
  [lg \in {-1059, -758, -503, -457, -360, -281, -258, -105, 20, 196} |->
     CASE lg = -1059 -> -1060
       [] lg = -758 -> -760
       [] lg = -258 -> -280
       [] lg = -503 -> -510
       [] lg = -457 -> -466
       [] lg = -360 -> -374
       [] lg = -281 -> -301
       [] lg = -105 -> -151
       [] lg = 20 -> -62
       [] lg = 196 -> 0]

MathSin(x) ==
  IF IsNaN(x) \/ x.k = "inf" THEN NaN
  ELSE IF x.k = "zero" THEN Zero
  ELSE IF x.l <= -1500 THEN x
  ELSE Fin(x.s, SinLog[x.l])

\* The estimator with a cube root in place of the fourth root.
estimateOzoneDepletionCubeRoot(megatons) ==
  IF ~isFinite(megatons) \/ Le(megatons, Zero) THEN Zero
  ELSE clamp(Mul(Lit(LOG_OZONE), MathPow(megatons, 1, 3)), Zero, Lit(LOG_OZONE_CAP))

\* The estimator with the percent scale's ceiling, 100, in place of the cap of 50.
estimateOzoneDepletionCap100(megatons) ==
  IF ~isFinite(megatons) \/ Le(megatons, Zero) THEN Zero
  ELSE clamp(Mul(Lit(LOG_OZONE), MathPow(megatons, 1, 4)), Zero, Lit(LOG_PERCENT))

\* estimateOzoneDepletion(energyMT): the argument is the yield in megatons.
estimateOzoneDepletion(megatons) ==
  IF ~isFinite(megatons) \/ Le(megatons, Zero) THEN Zero
  ELSE LET pct == Mul(Lit(LOG_OZONE), MathPow(megatons, 1, 4))
       IN clamp(pct, Zero, Lit(LOG_OZONE_CAP))

\* calculateCraterDiameter with the angle floored at 0 in place of 0.1.
calculateCraterDiameterFloorZero(diameter, density, velocity, angle) ==
  LET theta == DivLit(Mul(clamp(angle, Zero, Lit(LOG_ANGLE_MAX)),
                          Lit(LOG_PI)), Lit(LOG_180))
      r == MathMax(Zero, DivLit(diameter, Lit(LOG_TWO)))
      transientCrater ==
        Mul(Mul(Mul(Mul(Mul(Lit(LOG_K1),
                            MathPow(Lit(LOG_GRAVITY), -11, 50)),
                        MathPow(DivLit(density, Lit(LOG_TARGET_DENSITY)), 1, 3)),
                    MathPow(r, 39, 50)),
                MathPow(velocity, 11, 25)),
            MathPow(MathSin(theta), 1, 3))
      finalCrater == Mul(transientCrater, Lit(LOG_CORRECTION))
  IN MathMax(Zero, finalCrater)

\* calculateCraterDiameter(diameter, density, velocity, angle) with the default
\* targetDensity = 2700 and gravity = 9.81; mu = 0.22 = 11/50.
calculateCraterDiameter(diameter, density, velocity, angle) ==
  LET theta == DivLit(Mul(clamp(angle, Lit(LOG_ANGLE_MIN), Lit(LOG_ANGLE_MAX)),
                          Lit(LOG_PI)), Lit(LOG_180))
      r == MathMax(Zero, DivLit(diameter, Lit(LOG_TWO)))
      transientCrater ==
        Mul(Mul(Mul(Mul(Mul(Lit(LOG_K1),
                            MathPow(Lit(LOG_GRAVITY), -11, 50)),
                        MathPow(DivLit(density, Lit(LOG_TARGET_DENSITY)), 1, 3)),
                    MathPow(r, 39, 50)),
                MathPow(velocity, 11, 25)),
            MathPow(MathSin(theta), 1, 3))
      finalCrater == Mul(transientCrater, Lit(LOG_CORRECTION))
  IN MathMax(Zero, finalCrater)

\* The sanitizer without its isFinite test: x > 0 ? x : 0.
safeUnchecked(x) == IF Gt(x, Zero) THEN x ELSE Zero

\* const safe = (x) => (isFinite(x) && x > 0 ? x : 0)
safe(x) == IF isFinite(x) /\ Gt(x, Zero) THEN x ELSE Zero

\* The thresholds of the superseded revision's form: strict comparisons.
acidRainSeverityStrict(kineticEnergy) ==
  IF Gt(kineticEnergy, Lit(LOG_ACID_SEVERE)) THEN "Severe acid rain likely (global)"
  ELSE IF Gt(kineticEnergy, Lit(LOG_ACID_REGIONAL)) THEN "Regional acid rain possible"
  ELSE "Localized acid rain possible"

\* The acid-rain label from the raw kinetic energy in joules.
acidRainSeverity(kineticEnergy) ==
  IF Ge(kineticEnergy, Lit(LOG_ACID_SEVERE)) THEN "Severe acid rain likely (global)"
  ELSE IF Ge(kineticEnergy, Lit(LOG_ACID_REGIONAL)) THEN "Regional acid rain possible"
  ELSE "Localized acid rain possible"

\* The climate label with the thresholds read in tons instead of megatons.
climateImpactOfTons(E_Mt) ==
  IF Lt(Mul(E_Mt, Lit(LOG_1E6)), Lit(0)) THEN "Negligible global climate impact"
  ELSE IF Lt(Mul(E_Mt, Lit(LOG_1E6)), Lit(LOG_1E3))
    THEN "Regional cooling ('mini impact winter')"
  ELSE "Global impact winter (years of cooling) followed by greenhouse warming"

\* The climate label with inclusive upper thresholds: <= 1, <= 1000.
climateImpactInclusive(E_Mt) ==
  IF Le(E_Mt, Lit(0)) THEN "Negligible global climate impact"
  ELSE IF Le(E_Mt, Lit(LOG_1E3)) THEN "Regional cooling ('mini impact winter')"
  ELSE "Global impact winter (years of cooling) followed by greenhouse warming"

\* The climate label from the megaton yield.
climateImpact(E_Mt) ==
  IF Lt(E_Mt, Lit(0)) THEN "Negligible global climate impact"
  ELSE IF Lt(E_Mt, Lit(LOG_1E3)) THEN "Regional cooling ('mini impact winter')"
  ELSE "Global impact winter (years of cooling) followed by greenhouse warming"

\* severeDamageRadius = 4.5 * Math.pow(E_Mt, 1 / 3)
severeDamageRadius(E_Mt) == Mul(Lit(LOG_SEVERE), MathPow(E_Mt, 1, 3))

\* thirdDegreeBurnRadius = 8.0 * Math.pow(E_Mt, 0.40)
thirdDegreeBurnRadius(E_Mt) == Mul(Lit(LOG_THIRD), MathPow(E_Mt, 2, 5))

\* The second-degree radius with a constant below the third-degree one,
\* 5.0 * E_Mt^0.40, which the guard then replaces.
secondDegreeBurnRadiusGuarded(E_Mt) ==
  IF Lt(Mul(Lit(699), MathPow(E_Mt, 2, 5)), Mul(Lit(LOG_THIRD), MathPow(E_Mt, 2, 5)))
    THEN Mul(Mul(Lit(LOG_THIRD), MathPow(E_Mt, 2, 5)), Lit(LOG_GUARD))
  ELSE Mul(Lit(699), MathPow(E_Mt, 2, 5))

\* The second-degree radius of the superseded revision: 2.0 * W^0.25, unguarded.
secondDegreeBurnRadiusSuperseded(E_Mt) == Mul(Lit(LOG_TWO), MathPow(E_Mt, 1, 4))

\* secondDegreeBurnRadius = 13.0 * Math.pow(E_Mt, 0.40), then the guard against
\* an inversion: if below the third-degree radius, 1.1 times that radius.
secondDegreeBurnRadius(E_Mt) ==
  LET secondRaw == Mul(Lit(LOG_SECOND), MathPow(E_Mt, 2, 5))
      third == thirdDegreeBurnRadius(E_Mt)
  IN IF Lt(secondRaw, third) THEN Mul(third, Lit(LOG_GUARD)) ELSE secondRaw

\* The noise radius computed from the megaton yield: 15.0 * (E_kt / 1e3)^0.25.
noiseDamageRadiusMegatons(E_kt) ==
  Mul(Lit(LOG_NOISE), MathPow(DivLit(E_kt, Lit(LOG_1E3)), 1, 4))

\* The noise radius capped at 20000 km, half the circumference of the Earth.
noiseDamageRadiusCapped(E_kt) ==
  MathMin(Lit(4301), Mul(Lit(LOG_NOISE), MathPow(E_kt, 1, 4)))

\* noiseDamageRadius = 15.0 * Math.pow(E_kt, 0.25)
noiseDamageRadius(E_kt) == Mul(Lit(LOG_NOISE), MathPow(E_kt, 1, 4))

\* The body of calculateImpact up to its return statement: every local of the
\* function, before sanitization.
rawImpact(in) ==
  LET diameter == in.diameter
      density == in.density
      velocity == in.velocity
      angle == in.angle
      radius == MathMax(Zero, DivLit(diameter, Lit(LOG_TWO)))
      mass == Mul(Mul(Lit(LOG_FOUR_THIRDS_PI), MathPow(radius, 3, 1)), density)
      kineticEnergy == Mul(DivLit(mass, Lit(LOG_TWO)), MathPow(velocity, 2, 1))
      energyTNT == DivLit(kineticEnergy, Lit(LOG_TNT_JOULES))
      E_tons == MathMax(Zero, energyTNT)
      E_kt == DivLit(E_tons, Lit(LOG_1E3))
      E_Mt == DivLit(E_tons, Lit(LOG_1E6))
  IN [mass |-> mass,
      kineticEnergy |-> kineticEnergy,
      E_tons |-> E_tons,
      E_kt |-> E_kt,
      E_Mt |-> E_Mt,
      volcanoEquivalent |-> DivLit(E_Mt, Lit(LOG_KRAKATOA)),
      craterDiameter |->
        DivLit(calculateCraterDiameter(diameter, density, velocity, angle),
               Lit(LOG_1E3)),
      severeDamageRadius |-> severeDamageRadius(E_Mt),
      thirdDegreeBurnRadius |-> thirdDegreeBurnRadius(E_Mt),
      secondDegreeBurnRadius |-> secondDegreeBurnRadius(E_Mt),
      noiseDamageRadius |-> noiseDamageRadius(E_kt),
      ozoneDepletionPercent |-> estimateOzoneDepletion(E_Mt),
      acidRainSeverity |-> acidRainSeverity(kineticEnergy),
      climateImpact |-> climateImpact(E_Mt)]

\* The return statement of calculateImpact: the bundle of twelve fields.
ImpactResults(q) ==
  [mass |-> safe(q.mass),
   kineticEnergy |-> safe(q.kineticEnergy),
   energyTNT |-> safe(q.E_tons),
   volcanoEquivalent |-> safe(q.volcanoEquivalent),
   craterDiameter |-> safe(q.craterDiameter),
   severeDamageRadius |-> safe(q.severeDamageRadius),
   thirdDegreeBurnRadius |-> safe(q.thirdDegreeBurnRadius),
   secondDegreeBurnRadius |-> safe(q.secondDegreeBurnRadius),
   noiseDamageRadius |-> safe(q.noiseDamageRadius),
   ozoneDepletionPercent |-> clamp(q.ozoneDepletionPercent, Zero, Lit(LOG_PERCENT)),
   acidRainSeverity |-> q.acidRainSeverity,
   climateImpact |-> q.climateImpact]

\* calculateImpact with a validation that throws on a degenerate input.
calculateImpactRejecting(in) ==
  IF Gt(in.diameter, Zero) /\ Gt(in.velocity, Zero) /\ Gt(in.angle, Zero)
  THEN ImpactResults(rawImpact(in))
  ELSE [error |-> "RangeError"]

\* calculateImpact(inputs)
calculateImpact(in) == ImpactResults(rawImpact(in))

(***************************************************************************)
(* The state: one evaluation of the impact model.  `inputs` is the         *)
(* ImpactInputs record the caller built, `results` the ImpactResults       *)
(* returned for it (NoResults before the call); `energyMT` and `ozone` are *)
(* the argument and the result of a direct call of the exported            *)
(* estimateOzoneDepletion.                                                 *)
(***************************************************************************)
VARIABLES inputs, results, energyMT, ozone, selectedLocation, impactRings,
          collection, calls, selectedMeteor

impactVars == <<inputs, results, energyMT, ozone>>

NoInputs == [none |-> TRUE]
NoResults == [none |-> TRUE]
NoNumber == [k |-> "none", s |-> 0, l |-> 0]
NoCenter == [none |-> TRUE]
NoCollection == [none |-> TRUE]
ringVars == <<selectedLocation, impactRings, collection>>
NoMeteor == [none |-> TRUE]

\* The state of the other components: `polygon` is one call of
\* createCirclePolygon with a radius in whole kilometres, its arguments and
\* (once called) the ring it returned.
VARIABLES polygon

NoPolygon == [none |-> TRUE]
NoRing == <<>>

\* The state of one MapboxMap component and of the browser window it runs in.
\*   window          window.mapboxgl (is the library defined),
\*                   window.__mapboxglPromise, the script elements appended to
\*                   document.head and the Promise objects created so far
\*   phase           "initial" before the component mounts, then "mounted",
\*                   then "unmounted"
\*   runs            the runs of the effect on [mapStyle, accessToken], in
\*                   order: the promise loadMapbox returned to the run, the
\*                   run's `cancelled` flag, and what its callback did
\*   maps            the mapbox.Map objects constructed, in order
\*   mapRef, cleanupRef, mapReadyRef, pendingActions, error
\*                   the refs and the state of the component; a ref to a map
\*                   holds its index in `maps`, 0 is null
\*   log             the actions executed and the calls of onReady (0), in order
\*   nextAction      the actions passed to runOrQueue are numbered 1, 2, ...
VARIABLES window, phase, runs, maps, mapRef, cleanupRef, mapReadyRef,
          pendingActions, log, nextAction, error

NoPromise == [id |-> 0, state |-> "none"]
mapVars == <<window, phase, runs, maps, mapRef, cleanupRef, mapReadyRef,
             pendingActions, log, nextAction, error>>
MapIdle ==
  /\ window = [mapboxgl |-> FALSE, mapboxglPromise |-> NoPromise,
               scripts |-> 0, promises |-> 0]
  /\ phase = "initial"
  /\ runs = <<>>
  /\ maps = <<>>
  /\ mapRef = 0
  /\ cleanupRef = 0
  /\ mapReadyRef = FALSE
  /\ pendingActions = <<>>
  /\ log = <<>>
  /\ nextAction = 1
  /\ error = FALSE

\* The state of the Page component besides selectedMeteor: the view shown,
\* the view the analysis was entered from, and forceImpactEffects.
VARIABLES currentView, previousView, forceImpactEffects

pageVars == <<currentView, previousView, forceImpactEffects>>
PageIdle ==
  /\ currentView = "home"
  /\ previousView = "home"
  /\ forceImpactEffects = FALSE

\* The state of the CustomMeteorWizard component: `state` and `step`.
VARIABLES wizardState, wizardStep

\* DEFAULT_STATE: 100 m, 20 km/s, 45 degrees, 3000 kg/m3, no impactLocation.
DEFAULT_STATE ==
  [diameter_m |-> Lit(2000), velocity_kms |-> Lit(1301),
   angle_deg |-> Lit(1653), density_kgm3 |-> Lit(3477),
   impactLocation |-> NoCenter]
wizardVars == <<wizardState, wizardStep>>
WizardIdle == wizardState = DEFAULT_STATE /\ wizardStep = 0

\* The state of one CanvasStars component.
\*   poolRef       the stars, each with its position x (in pixels), the head
\*                 and the length of its trail, and an identity
\*   spawnAccRef   the time accumulated towards the next star
\*   clock         the timestamp of the last frame
\*   lastTsRef     whether that timestamp is remembered (it is null if not)
\*   velRef        the velocity the frames read, in km/s
\*   rafRef        whether a frame is requested
\*   enabled       the prop
\*   hidden        document.visibilityState = "hidden"
\*   nextStar      the stars made are numbered 1, 2, ...
\*   frame         the pool of the last frame after its stars moved and before
\*                 it was compacted
VARIABLES poolRef, spawnAccRef, clock, lastTsRef, velRef, rafRef, enabled,
          hidden, nextStar, frame

starVars == <<poolRef, spawnAccRef, clock, lastTsRef, velRef, rafRef, enabled,
              hidden, nextStar, frame>>
StarsIdle ==
  /\ poolRef = <<>>
  /\ spawnAccRef = 0
  /\ clock = 0
  /\ lastTsRef = FALSE
  /\ velRef = 20
  /\ rafRef = FALSE
  /\ enabled = FALSE
  /\ hidden = FALSE
  /\ nextStar = 1
  /\ frame = <<>>

oldVars == <<impactVars, ringVars, calls, selectedMeteor>>
restVars == <<polygon, mapVars, pageVars, wizardVars, starVars>>
RestIdle ==
  polygon = NoPolygon /\ MapIdle /\ PageIdle /\ WizardIdle /\ StarsIdle
outsidePolygon == <<oldVars, mapVars, pageVars, wizardVars, starVars>>
outsideMap == <<oldVars, polygon, pageVars, wizardVars, starVars>>
outsidePage == <<polygon, mapVars, wizardVars, starVars>>
outsideStars == <<oldVars, polygon, mapVars, pageVars, wizardVars>>
allVars == <<impactVars, ringVars, calls, selectedMeteor, restVars>>

\* The doubles the inputs are drawn from: NaN, the infinities, zero, negative
\* numbers, the UI's ranges (DIAMETER, VELOCITY, DENSITY, ANGLE of meteor.ts),
\* magnitudes near the largest finite yields and magnitudes whose cube or
\* square overflows.
Diameters ==
  {NaN, NegInf, Fin(-1, 2000), Zero, Lit(1000), Lit(2000), Lit(4000),
   Lit(90000), Lit(150000), PosInf}
Densities ==
  {NaN, Fin(-1, 3000), Zero, Lit(3000), Lit(3477), Lit(3601), Lit(3602),
   Lit(3903), Lit(3979), Lit(3980), PosInf}
Velocities ==
  {NaN, NegInf, Fin(-1, 4301), Zero, Lit(3301), Lit(4079), Lit(4301), Lit(4801),
   Lit(4857), Lit(160000), PosInf}
Angles ==
  {NaN, Fin(-1, 1000), Zero, Lit(-1301), Lit(-1000), Lit(699), Lit(1255),
   Lit(1653), Lit(1778), Lit(1954), Lit(2079), PosInf}
\* The megaton yields estimateOzoneDepletion is called with directly.
Yields ==
  {NaN, NegInf, Fin(-1, 0), Zero, Lit(-4000), Lit(-1), Lit(0), Lit(1),
   Lit(1204), Lit(1908), Lit(2000), Lit(3999), Lit(4000), Lit(4001),
   Lit(5204), Lit(9000), Lit(MaxLog), PosInf}

InitImpact ==
  /\ \/ /\ inputs \in [diameter : Diameters, density : Densities,
                       velocity : Velocities, angle : Angles]
        /\ energyMT = NoNumber
     \/ /\ inputs = NoInputs
        /\ energyMT \in Yields
  /\ results = NoResults
  /\ ozone = NoNumber
  /\ selectedLocation = NoCenter
  /\ impactRings = <<>>
  /\ collection = NoCollection
  /\ calls = <<>>
  /\ selectedMeteor = NoMeteor
  /\ RestIdle

\* results = calculateImpact(inputs)
CalculateImpact ==
  /\ inputs # NoInputs
  /\ results = NoResults
  /\ results' = calculateImpact(inputs)
  /\ UNCHANGED <<inputs, energyMT, ozone>>
  /\ UNCHANGED <<ringVars, calls>>
  /\ UNCHANGED selectedMeteor
  /\ UNCHANGED restVars

\* ozone = estimateOzoneDepletion(energyMT)
EstimateOzoneDepletion ==
  /\ energyMT # NoNumber
  /\ ozone = NoNumber
  /\ ozone' = estimateOzoneDepletion(energyMT)
  /\ UNCHANGED <<inputs, results, energyMT>>
  /\ UNCHANGED <<ringVars, calls>>
  /\ UNCHANGED selectedMeteor
  /\ UNCHANGED restVars

NextImpact == CalculateImpact \/ EstimateOzoneDepletion

SpecImpact == InitImpact /\ [][NextImpact]_allVars

(***************************************************************************)
(* The geodesic ring builder of MapboxMap.tsx.                             *)
(*                                                                         *)
(* Its doubles are angles, sines and cosines.  They are modelled in fixed  *)
(* point, as records [m, neg, nz]: m is the magnitude in millionths        *)
(* (radians in microradians, degrees in microdegrees), truncated; neg is   *)
(* the sign bit; nz says that the double is not a zero.  A double too      *)
(* small for the resolution has m = 0 and nz = TRUE and keeps its sign, as *)
(* Math.sin(2 * Math.PI) = -2.4e-16 does; a zero has nz = FALSE and a sign *)
(* bit, as +0 and -0 have.  Math.atan2 reads both.                         *)
(***************************************************************************)
Scale == 1000000

FxAbs(i) == IF i < 0 THEN -i ELSE i
\* The number i / Scale for an integer i.
Fx(i) == [m |-> FxAbs(i), neg |-> i < 0, nz |-> i # 0]
\* The integer n as a number.
FxInt(n) == Fx(n * Scale)
\* The signed magnitude of x, in millionths.
FxVal(x) == IF x.neg THEN -x.m ELSE x.m
FxNeg(x) == [x EXCEPT !.neg = ~x.neg]

\* floor(a * b / Scale) for magnitudes a, b, by three-digit limbs: no
\* intermediate product leaves the 32-bit integers.
MulMag(a, b) ==
  LET ah == a \div 1000
      al == a % 1000
      bh == b \div 1000
      bl == b % 1000
      mid == ah * bl + al * bh
  IN ah * bh + mid \div 1000 + ((mid % 1000) * 1000 + al * bl) \div Scale

\* floor(n * Scale / d) for n >= 0 and d > 0, by long division, two decimal
\* digits at a time.
DivMag(n, d) ==
  LET q0 == n \div d
      r0 == n % d
      q1 == (r0 * 100) \div d
      r1 == (r0 * 100) % d
      q2 == (r1 * 100) \div d
      r2 == (r1 * 100) % d
      q3 == (r2 * 100) \div d
  IN q0 * Scale + q1 * 10000 + q2 * 100 + q3

\* x * y: the product of two non-zero doubles is not a zero.
FxMul(x, y) ==
  [m |-> MulMag(x.m, y.m), neg |-> x.neg # y.neg, nz |-> x.nz /\ y.nz]

\* x + y.  Operands of opposite signs and equal magnitudes cancel to +0, as
\* x + (-x) does.
FxAdd(x, y) ==
  IF x.neg = y.neg THEN [m |-> x.m + y.m, neg |-> x.neg, nz |-> x.nz \/ y.nz]
  ELSE IF x.m > y.m THEN [m |-> x.m - y.m, neg |-> x.neg, nz |-> TRUE]
  ELSE IF y.m > x.m THEN [m |-> y.m - x.m, neg |-> y.neg, nz |-> TRUE]
  ELSE IF x.nz /\ ~y.nz THEN x
  ELSE IF y.nz /\ ~x.nz THEN y
  ELSE [m |-> 0, neg |-> FALSE, nz |-> FALSE]

\* x - y
FxSub(x, y) == FxAdd(x, FxNeg(y))

\* x / d for a positive integer d.
FxDivInt(x, d) == [x EXCEPT !.m = x.m \div d]

\* x < y
FxLt(x, y) ==
  IF FxVal(x) # FxVal(y) THEN FxVal(x) < FxVal(y)
  ELSE IF x.nz /\ x.neg THEN ~(y.nz /\ y.neg)
  ELSE IF y.nz /\ ~y.neg THEN ~x.nz
  ELSE FALSE

\* Math.max(x, y) and Math.min(x, y); Math.max(+0, -0) is +0.
FxMax(x, y) ==
  IF FxLt(x, y) THEN y ELSE IF FxLt(y, x) THEN x ELSE IF x.neg THEN y ELSE x
FxMin(x, y) ==
  IF FxLt(x, y) THEN x ELSE IF FxLt(y, x) THEN y ELSE IF x.neg THEN x ELSE y

\* Math.PI in microradians, truncated: like the double, it lies below pi.
MATH_PI == 3141592
HALF_PI == MATH_PI \div 2
TWO_PI == 2 * MATH_PI

\* sin and cos of r microradians, 0 <= r <= pi / 4, by their series in
\* nested form; r2 is r * r.
SinSeries(r, r2) ==
  MulMag(r, Scale - MulMag(r2, Scale - MulMag(r2, Scale - MulMag(r2,
    Scale - r2 \div 72) \div 42) \div 20) \div 6)
CosSeries(r2) ==
  Scale - MulMag(r2, Scale - MulMag(r2, Scale - MulMag(r2, Scale - MulMag(r2,
    Scale - r2 \div 90) \div 56) \div 30) \div 12) \div 2

\* The sine of r microradians, 0 <= r <= HALF_PI, by the series of the nearer
\* end of the quarter turn.
SinOfQuarter(r) ==
  IF r <= HALF_PI \div 2 THEN SinSeries(r, MulMag(r, r))
  ELSE IF r >= HALF_PI THEN Scale
  ELSE CosSeries(MulMag(HALF_PI - r, HALF_PI - r))

\* The sine of k milliradians, 0 <= k <= 1571 (a quarter turn), in millionths.
QuarterMrad == 1571
SinTable == [k \in 0..QuarterMrad |-> SinOfQuarter(k * 1000)]

\* The value at x thousandths of a step, interpolated between the entries of
\* a table; and the inverse, from the index k of the entry below v.
Interpolate(table, x) ==
  table[x \div 1000]
    + ((table[x \div 1000 + 1] - table[x \div 1000]) * (x % 1000)) \div 1000
InverseInterpolate(table, v, k) ==
  k * 1000 + (IF table[k + 1] > table[k]
                THEN ((v - table[k]) * 1000) \div (table[k + 1] - table[k])
                ELSE 0)

\* The sine of r microradians, 0 <= r <= HALF_PI.
SinQuarter(r) == IF r >= HALF_PI THEN Scale ELSE Interpolate(SinTable, r)

\* x reduced to one turn.  A turn is TWO_PI + 1 microradians, truncated, so
\* that 2 * Math.PI stays below a full turn as the double does.
Turn(x) == x.m % (TWO_PI + 1)

\* The sine and cosine of x, which is r into its turn.  The sign is that of
\* the quadrant r lies in, also when the magnitude is below the resolution:
\* Math.sin(Math.PI) > 0, Math.sin(2 * Math.PI) < 0, Math.cos(Math.PI / 2) > 0.
SinOfTurn(x, r) ==
  [m |-> SinQuarter(IF r <= HALF_PI THEN r
                    ELSE IF r <= MATH_PI THEN MATH_PI - r
                    ELSE IF r <= MATH_PI + HALF_PI THEN r - MATH_PI
                    ELSE TWO_PI - r),
   neg |-> IF r <= MATH_PI THEN x.neg ELSE ~x.neg,
   nz |-> x.nz]
CosOfTurn(r) ==
  [m |-> SinQuarter(IF r <= HALF_PI THEN HALF_PI - r
                    ELSE IF r <= MATH_PI THEN r - HALF_PI
                    ELSE IF r <= MATH_PI + HALF_PI THEN MATH_PI + HALF_PI - r
                    ELSE r - MATH_PI - HALF_PI),
   neg |-> r > HALF_PI /\ r <= MATH_PI + HALF_PI,
   nz |-> TRUE]

\* Math.sin(x) and Math.cos(x)
FxSin(x) == SinOfTurn(x, Turn(x))
FxCos(x) == CosOfTurn(Turn(x))

\* The greatest k in lo..hi with table[k] <= v, by bisection.
RECURSIVE TableIndex(_, _, _, _)
TableIndex(table, v, lo, hi) ==
  IF lo >= hi THEN lo
  ELSE IF table[(lo + hi + 1) \div 2] <= v
       THEN TableIndex(table, v, (lo + hi + 1) \div 2, hi)
       ELSE TableIndex(table, v, lo, (lo + hi + 1) \div 2 - 1)

\* The smaller of two integers.
Least(a, b) == IF a < b THEN a ELSE b

\* NaN, which Math.asin returns outside [-1, 1]; no magnitude is negative.
FxNaN == [m |-> -1, neg |-> FALSE, nz |-> TRUE]
IsNumber(x) == x.m >= 0

\* Math.asin(x): the inverse of the interpolated table for -1 <= x <= 1, NaN
\* outside.
FxAsin(x) ==
  IF x.m > Scale THEN FxNaN
  ELSE [m |-> IF x.m = Scale THEN HALF_PI
              ELSE Least(HALF_PI,
                         InverseInterpolate(SinTable, x.m,
                           TableIndex(SinTable, x.m, 0, QuarterMrad - 1))),
        neg |-> x.neg,
        nz |-> x.nz]

\* The angle a in lo..hi microradians with tan(a) = t / Scale, by bisection on
\* sin(a) <= t * cos(a); 0 <= t <= Scale, so a is at most pi / 4.
RECURSIVE AtanSearch(_, _, _)
AtanSearch(t, lo, hi) ==
  IF lo >= hi THEN lo
  ELSE IF SinQuarter((lo + hi + 1) \div 2)
            <= MulMag(t, SinQuarter(HALF_PI - (lo + hi + 1) \div 2))
       THEN AtanSearch(t, (lo + hi + 1) \div 2, hi)
       ELSE AtanSearch(t, lo, (lo + hi + 1) \div 2 - 1)

\* The arctangent of j thousandths, 0 <= j <= 1001, in microradians.
AtanTable == [j \in 0..1001 |-> AtanSearch(Least(j * 1000, Scale), 0, HALF_PI \div 2)]

\* The arctangent of t millionths, 0 <= t <= Scale.
AtanUnit(t) == Interpolate(AtanTable, t)

\* The angle between the positive x axis and the direction (|x|, |y|), in
\* 0..HALF_PI.  A y below the resolution against an x of the same kind is
\* taken as the diagonal.
BaseAngle(y, x) ==
  IF y.m = 0 /\ x.m = 0
    THEN (IF ~y.nz THEN 0 ELSE IF ~x.nz THEN HALF_PI ELSE HALF_PI \div 2)
  ELSE IF y.m <= x.m THEN AtanUnit(DivMag(y.m, x.m))
  ELSE HALF_PI - AtanUnit(DivMag(x.m, y.m))

\* The angle of atan2 from the base angle a: with a negative x (-0 too) it is
\* pi - a, and it has the sign of y; a zero y gives a zero or pi.
Atan2Of(a, y, x) ==
  IF x.neg THEN [m |-> MATH_PI - a, neg |-> y.neg, nz |-> TRUE]
  ELSE [m |-> a, neg |-> y.neg, nz |-> y.nz]

\* Math.atan2(y, x)
FxAtan2(y, x) == Atan2Of(BaseAngle(y, x), y, x)

\* x * n and x / y
FxMulInt(x, n) == [x EXCEPT !.m = x.m * n]
FxDiv(x, y) ==
  [m |-> DivMag(x.m, y.m), neg |-> x.neg # y.neg, nz |-> x.nz]

EARTH_RADIUS_KM == 6371
DEFAULT_STEPS == 128

toRadians(degrees) == FxDivInt(FxMul(degrees, Fx(MATH_PI)), 180)
toDegrees(radians) ==
  IF IsNumber(radians) THEN FxDiv(FxMulInt(radians, 180), Fx(MATH_PI))
  ELSE FxNaN

\* The vertex by plane offsets of the center: latRad + radiusRad * cos(bearing)
\* and lngRad + radiusRad * sin(bearing), without the arcsine.
CircleVertexPlanar(latRad, lngRad, radiusRad, i, steps) ==
  LET bearing == FxMul(FxMulInt(FxDivInt(FxInt(i), steps), 2), Fx(MATH_PI))
  IN <<toDegrees(FxAdd(lngRad, FxMul(radiusRad, FxSin(bearing)))),
       toDegrees(FxAdd(latRad, FxMul(radiusRad, FxCos(bearing))))>>

\* The vertex of index i of createCirclePolygon's loop: [lng, lat] in degrees.
CircleVertex(latRad, lngRad, radiusRad, i, steps) ==
  LET bearing == FxMul(FxMulInt(FxDivInt(FxInt(i), steps), 2), Fx(MATH_PI))
      sinLat == FxAdd(FxMul(FxSin(latRad), FxCos(radiusRad)),
                      FxMul(FxMul(FxCos(latRad), FxSin(radiusRad)),
                            FxCos(bearing)))
      lat == FxAsin(FxMin(FxInt(1), FxMax(FxInt(-1), sinLat)))
      lng == IF IsNumber(lat)
               THEN FxAdd(lngRad,
                     FxAtan2(FxMul(FxMul(FxSin(bearing), FxSin(radiusRad)),
                                   FxCos(latRad)),
                             FxSub(FxCos(radiusRad),
                                   FxMul(FxSin(latRad), FxSin(lat)))))
               ELSE FxNaN
  IN <<toDegrees(lng), toDegrees(lat)>>

\* createCirclePolygon without the floor of the radius: radiusKm / EARTH_RADIUS_KM.
createCirclePolygonUnfloored(center, radiusKm, steps) ==
  LET latRad == toRadians(center.lat)
      lngRad == toRadians(center.lng)
      radiusRad == FxDivInt(radiusKm, EARTH_RADIUS_KM)
  IN [type |-> "Polygon",
      coordinates |->
        <<[j \in 1..(steps + 1) |->
             CircleVertex(latRad, lngRad, radiusRad, j - 1, steps)]>>]

\* createCirclePolygon(center, radiusKm, steps): the ring of steps + 1
\* vertices, of indices 0..steps.
createCirclePolygon(center, radiusKm, steps) ==
  LET latRad == toRadians(center.lat)
      lngRad == toRadians(center.lng)
      radiusRad == FxDivInt(FxMax(FxInt(0), radiusKm), EARTH_RADIUS_KM)
  IN [type |-> "Polygon",
      coordinates |->
        <<[j \in 1..(steps + 1) |->
             CircleVertex(latRad, lngRad, radiusRad, j - 1, steps)]>>]

\* An absent optional property of an ImpactRing.
Undefined == "undefined"

\* The comparator of buildImpactRingCollection's sort.
compareRings(a, b) == FxSub(b.radiusKm, a.radiusKm)

\* Array.prototype.sort is stable: ring goes before the first element the
\* comparator puts after it, and behind every element it compares equal to.
RECURSIVE InsertRing(_, _)
InsertRing(sorted, ring) ==
  IF sorted = <<>> THEN <<ring>>
  ELSE IF FxLt(compareRings(ring, Head(sorted)), FxInt(0))
       THEN <<ring>> \o sorted
       ELSE <<Head(sorted)>> \o InsertRing(Tail(sorted), ring)

\* [...rings].sort((a, b) => b.radiusKm - a.radiusKm)
RECURSIVE SortRings(_)
SortRings(list) ==
  IF list = <<>> THEN <<>>
  ELSE InsertRing(SortRings(SubSeq(list, 1, Len(list) - 1)), list[Len(list)])

\* The centers and rings the builder is run on: the equator, mid latitudes,
\* the antimeridian, high latitudes and both poles; radii that are negative,
\* zero, fractional, equal to one another and large enough to pass a pole.
Centers ==
  {[lat |-> FxInt(c[1]), lng |-> FxInt(c[2])] :
     c \in {<<0, 0>>, <<37, -122>>, <<-45, 180>>, <<80, 7>>, <<-80, -179>>,
            <<90, 45>>, <<-90, -180>>}}

RingPool ==
  {[id |-> "severe", radiusKm |-> FxInt(10), color |-> "#ef4444", label |-> "Severe"],
   [id |-> "third", radiusKm |-> FxInt(25), color |-> "#f97316", label |-> "3rd degree"],
   [id |-> "second", radiusKm |-> FxInt(50), color |-> "#facc15", label |-> Undefined],
   [id |-> "glass", radiusKm |-> FxInt(25), color |-> Undefined, label |-> "Glass"],
   [id |-> "noise", radiusKm |-> FxInt(2000), color |-> "#38bdf8", label |-> "Noise"],
   [id |-> "none", radiusKm |-> FxInt(0), color |-> Undefined, label |-> Undefined],
   [id |-> "below", radiusKm |-> FxInt(-5), color |-> "#000000", label |-> "Below"],
   [id |-> "half", radiusKm |-> Fx(500000), color |-> Undefined, label |-> "Half"]}

MaxRings == 3

\* The arrays of at most MaxRings rings of distinct ids.
RingLists ==
  {list \in UNION {[1..n -> RingPool] : n \in 0..MaxRings} :
     \A i, j \in DOMAIN list : i # j => list[i].id # list[j].id}

\* createCirclePolygon(center, radiusKm), with the default steps, tabulated
\* over the centers and radii above.
CirclePolygonOf ==
  [c \in Centers, r \in {ring.radiusKm : ring \in RingPool} |->
     createCirclePolygon(c, r, DEFAULT_STEPS)]

\* The builder without its sort: rings.map(...).
buildImpactRingCollectionUnsorted(center, rings) ==
  [type |-> "FeatureCollection",
   features |->
     [i \in DOMAIN rings |->
        [type |-> "Feature",
         geometry |-> CirclePolygonOf[center, rings[i].radiusKm],
         properties |-> [id |-> rings[i].id,
                         color |-> rings[i].color,
                         label |-> rings[i].label,
                         radiusKm |-> rings[i].radiusKm]]]]

\* The builder with a filter that drops the rings of no positive radius.
buildImpactRingCollectionVisibleOnly(center, rings) ==
  LET sorted == SelectSeq(SortRings(rings), LAMBDA ring : FxLt(FxInt(0), ring.radiusKm))
  IN [type |-> "FeatureCollection",
      features |->
        [i \in DOMAIN sorted |->
           [type |-> "Feature",
            geometry |-> CirclePolygonOf[center, sorted[i].radiusKm],
            properties |-> [id |-> sorted[i].id,
                            color |-> sorted[i].color,
                            label |-> sorted[i].label,
                            radiusKm |-> sorted[i].radiusKm]]]]

\* buildImpactRingCollection(center, rings)
buildImpactRingCollection(center, rings) ==
  LET sorted == SortRings(rings)
  IN [type |-> "FeatureCollection",
      features |->
        [i \in DOMAIN sorted |->
           [type |-> "Feature",
            geometry |-> CirclePolygonOf[center, sorted[i].radiusKm],
            properties |-> [id |-> sorted[i].id,
                            color |-> sorted[i].color,
                            label |-> sorted[i].label,
                            radiusKm |-> sorted[i].radiusKm]]]]

InitRings ==
  /\ selectedLocation \in Centers
  /\ impactRings \in RingLists
  /\ collection = NoCollection
  /\ inputs = NoInputs
  /\ results = NoResults
  /\ energyMT = NoNumber
  /\ ozone = NoNumber
  /\ calls = <<>>
  /\ selectedMeteor = NoMeteor
  /\ RestIdle

\* The call with the sort run on the caller's array: rings.sort(...).
BuildImpactRingCollectionInPlace ==
  /\ collection = NoCollection
  /\ collection' = buildImpactRingCollection(selectedLocation, impactRings)
  /\ impactRings' = SortRings(impactRings)
  /\ UNCHANGED <<selectedLocation, impactVars, calls>>
  /\ UNCHANGED selectedMeteor
  /\ UNCHANGED restVars

\* collection = buildImpactRingCollection(selectedLocation, impactRings)
BuildImpactRingCollection ==
  /\ collection = NoCollection
  /\ collection' = buildImpactRingCollection(selectedLocation, impactRings)
  /\ UNCHANGED <<selectedLocation, impactRings>>
  /\ UNCHANGED <<impactVars, calls>>
  /\ UNCHANGED selectedMeteor
  /\ UNCHANGED restVars

NextRings == BuildImpactRingCollection

SpecRings == InitRings /\ [][NextRings]_allVars

(***************************************************************************)
(* One call of createCirclePolygon with a radius of any size.  The radius  *)
(* is a whole number of kilometres, so that radii beyond a quarter of the  *)
(* circumference (10007 km), half of it (20015 km) and all of it           *)
(* (40030 km) fit the 32-bit integers.                                     *)
(***************************************************************************)
\* radiusRad = Math.max(0, radiusKm) / EARTH_RADIUS_KM for radiusKm whole.
radiusRadOfKm(km) == Fx(DivMag(IF km < 0 THEN 0 ELSE km, EARTH_RADIUS_KM))

createCirclePolygonOfKm(center, km, steps) ==
  [type |-> "Polygon",
   coordinates |->
     <<[j \in 1..(steps + 1) |->
          CircleVertex(toRadians(center.lat), toRadians(center.lng),
                       radiusRadOfKm(km), j - 1, steps)]>>]

\* Radii from none to more than the circumference of the sphere, a negative
\* one, and those on each side of a quarter, a half and a whole of it.
WholeRadii ==
  {-5, 0, 1, 100, 1113, 2000, 5000, 10007, 10008, 12000, 15000, 19040,
   20015, 20016, 25000, 30000, 40030, 40031, 50000, 100000}

InitPolygon ==
  /\ inputs = NoInputs
  /\ results = NoResults
  /\ energyMT = NoNumber
  /\ ozone = NoNumber
  /\ selectedLocation = NoCenter
  /\ impactRings = <<>>
  /\ collection = NoCollection
  /\ calls = <<>>
  /\ selectedMeteor = NoMeteor
  /\ polygon \in [center : Centers, radiusKm : WholeRadii, ring : {NoRing}]
  /\ MapIdle
  /\ PageIdle
  /\ WizardIdle
  /\ StarsIdle

CreateCirclePolygon ==
  /\ polygon.ring = NoRing
  /\ polygon' =
       [polygon EXCEPT !.ring =
          createCirclePolygonOfKm(polygon.center, polygon.radiusKm,
                                  DEFAULT_STEPS).coordinates[1]]
  /\ UNCHANGED outsidePolygon

NextPolygon == CreateCirclePolygon

SpecPolygon == InitPolygon /\ [][NextPolygon]_allVars

(***************************************************************************)
(* The MapboxMap component: the loader of the library, the effect that     *)
(* creates the map, and the queue of the actions that wait for the map.    *)
(*                                                                         *)
(* A step is one task of the browser's event loop: a commit of React (the  *)
(* effects it runs, in the order of the source), a callback of a promise,  *)
(* an event of the script element or of the map, a call of a method of the *)
(* imperative handle.  A map that was removed fires no event.              *)
(***************************************************************************)
MaxRuns == 3
MaxActions == 5

\* loadMapbox with a stored promise that is dropped once it was rejected.
loadMapboxRetrying(w) ==
  IF w.mapboxgl THEN
    [window |-> [w EXCEPT !.promises = @ + 1], promise |-> w.promises + 1]
  ELSE IF w.mapboxglPromise.state \in {"pending", "resolved"} THEN
    [window |-> w, promise |-> w.mapboxglPromise.id]
  ELSE
    [window |-> [w EXCEPT !.promises = @ + 1, !.scripts = @ + 1,
                          !.mapboxglPromise =
                            [id |-> w.promises + 1, state |-> "pending"]],
     promise |-> w.promises + 1]

\* loadMapbox in the browser: the window after the call and the promise
\* returned.  Promise.resolve(window.mapboxgl) is a new, resolved promise.
loadMapbox(w) ==
  IF w.mapboxgl THEN
    [window |-> [w EXCEPT !.promises = @ + 1], promise |-> w.promises + 1]
  ELSE IF w.mapboxglPromise # NoPromise THEN
    [window |-> w, promise |-> w.mapboxglPromise.id]
  ELSE
    [window |-> [w EXCEPT !.promises = @ + 1, !.scripts = @ + 1,
                          !.mapboxglPromise =
                            [id |-> w.promises + 1, state |-> "pending"]],
     promise |-> w.promises + 1]

\* The state of promise p: the stored promise settles with the script, every
\* other promise was made by Promise.resolve.
PromiseState(p) ==
  IF p = window.mapboxglPromise.id THEN window.mapboxglPromise.state
  ELSE "resolved"

\* A run of the effect that has called loadMapbox and chained its callbacks.
\* `available` is whether the library was defined at the call.
NewRun(p, lib) ==
  [promise |-> p, available |-> lib, cancelled |-> FALSE, state |-> "waiting",
   stale |-> FALSE, outcome |-> "none"]

\* The refs runOrQueue reads and writes.
Component ==
  [mapRef |-> mapRef, mapReadyRef |-> mapReadyRef,
   pendingActions |-> pendingActions, log |-> log]

\* runOrQueue that runs the action as soon as a map exists.
runOrQueueUnready(c, action) ==
  IF c.mapRef # 0 THEN [c EXCEPT !.log = Append(@, action)]
  ELSE [c EXCEPT !.pendingActions = Append(@, action)]

runOrQueue(c, action) ==
  IF c.mapRef # 0 /\ c.mapReadyRef THEN [c EXCEPT !.log = Append(@, action)]
  ELSE [c EXCEPT !.pendingActions = Append(@, action)]

\* The cleanup of the effect sets the run's `cancelled` and calls
\* cleanupRef.current, which removes the map it was made for.
Cancelled(rs) == [rs EXCEPT ![Len(rs)].cancelled = TRUE]
Removed(ms, ref) == IF ref = 0 THEN ms ELSE [ms EXCEPT ![ref].status = "removed"]

InitMap ==
  /\ inputs = NoInputs
  /\ results = NoResults
  /\ energyMT = NoNumber
  /\ ozone = NoNumber
  /\ selectedLocation = NoCenter
  /\ impactRings = <<>>
  /\ collection = NoCollection
  /\ calls = <<>>
  /\ selectedMeteor = NoMeteor
  /\ polygon = NoPolygon
  /\ MapIdle
  /\ PageIdle
  /\ WizardIdle
  /\ StarsIdle

\* The first commit: the effect on [mapStyle, accessToken], then the effect on
\* [selectedLocation], then the effect on [impactRings, selectedLocation].
Mount ==
  /\ phase = "initial"
  /\ phase' = "mounted"
  /\ window' = loadMapbox(window).window
  /\ runs' = <<NewRun(loadMapbox(window).promise, window.mapboxgl)>>
  /\ pendingActions' =
       runOrQueue(runOrQueue(Component, nextAction),
                  nextAction + 1).pendingActions
  /\ log' = runOrQueue(runOrQueue(Component, nextAction), nextAction + 1).log
  /\ nextAction' = nextAction + 2
  /\ UNCHANGED <<maps, mapRef, cleanupRef, mapReadyRef, error>>
  /\ UNCHANGED outsideMap

\* mapStyle or accessToken changes: the cleanup of the last run, then the
\* effect again.  The other effects do not run.
DependencyChange ==
  /\ phase = "mounted"
  /\ Len(runs) < MaxRuns
  /\ maps' = Removed(maps, cleanupRef)
  /\ cleanupRef' = 0
  /\ mapRef' = 0
  /\ mapReadyRef' = FALSE
  /\ pendingActions' = <<>>
  /\ window' = loadMapbox(window).window
  /\ runs' = Append(Cancelled(runs),
                    NewRun(loadMapbox(window).promise, window.mapboxgl))
  /\ UNCHANGED <<phase, log, nextAction, error>>
  /\ UNCHANGED outsideMap

\* The component unmounts: the cleanup of the last run.
Unmount ==
  /\ phase = "mounted"
  /\ phase' = "unmounted"
  /\ runs' = Cancelled(runs)
  /\ maps' = Removed(maps, cleanupRef)
  /\ cleanupRef' = 0
  /\ mapRef' = 0
  /\ mapReadyRef' = FALSE
  /\ pendingActions' = <<>>
  /\ UNCHANGED <<window, log, nextAction, error>>
  /\ UNCHANGED outsideMap

\* selectedLocation changes: the effect on [selectedLocation], then the
\* effect on [impactRings, selectedLocation].
SelectedLocationChange ==
  /\ phase = "mounted"
  /\ nextAction + 1 <= MaxActions
  /\ pendingActions' =
       runOrQueue(runOrQueue(Component, nextAction),
                  nextAction + 1).pendingActions
  /\ log' = runOrQueue(runOrQueue(Component, nextAction), nextAction + 1).log
  /\ nextAction' = nextAction + 2
  /\ UNCHANGED <<window, phase, runs, maps, mapRef, cleanupRef, mapReadyRef,
                 error>>
  /\ UNCHANGED outsideMap

\* impactRings changes: the effect on [impactRings, selectedLocation].
ImpactRingsChange ==
  /\ phase = "mounted"
  /\ nextAction <= MaxActions
  /\ pendingActions' = runOrQueue(Component, nextAction).pendingActions
  /\ log' = runOrQueue(Component, nextAction).log
  /\ nextAction' = nextAction + 1
  /\ UNCHANGED <<window, phase, runs, maps, mapRef, cleanupRef, mapReadyRef,
                 error>>
  /\ UNCHANGED outsideMap

\* script.onload: the promise resolves if the script defined window.mapboxgl
\* and rejects if it did not.
ScriptOnLoad ==
  /\ window.mapboxglPromise.state = "pending"
  /\ \E defined \in BOOLEAN :
       window' = [window EXCEPT
                    !.mapboxgl = defined,
                    !.mapboxglPromise.state =
                      IF defined THEN "resolved" ELSE "rejected"]
  /\ UNCHANGED <<phase, runs, maps, mapRef, cleanupRef, mapReadyRef,
                 pendingActions, log, nextAction, error>>
  /\ UNCHANGED outsideMap

\* script.onerror.
ScriptOnError ==
  /\ window.mapboxglPromise.state = "pending"
  /\ window' = [window EXCEPT !.mapboxglPromise.state = "rejected"]
  /\ UNCHANGED <<phase, runs, maps, mapRef, cleanupRef, mapReadyRef,
                 pendingActions, log, nextAction, error>>
  /\ UNCHANGED outsideMap

\* The callbacks of a promise run in the order they were chained.
Waiting(i) ==
  /\ i \in 1..Len(runs)
  /\ runs[i].state = "waiting"
  /\ \A j \in 1..(i - 1) : runs[j].state = "fired"

\* The callback of .then that constructs the map whether or not the run was
\* cancelled.
ThenCallbackUnguarded ==
  \E i \in 1..MaxRuns :
    /\ Waiting(i)
    /\ PromiseState(runs[i].promise) = "resolved"
    /\ runs' = [runs EXCEPT ![i].state = "fired",
                            ![i].stale = runs[i].cancelled,
                            ![i].outcome = "map"]
    /\ maps' = Append(maps, [status |-> "live", loaded |-> FALSE, run |-> i])
    /\ mapRef' = Len(maps) + 1
    /\ mapReadyRef' = FALSE
    /\ cleanupRef' = Len(maps) + 1
    /\ UNCHANGED <<window, phase, pendingActions, log, nextAction, error>>
    /\ UNCHANGED outsideMap

\* The callback of .then of a run.  The container is in the document exactly
\* while the component is mounted, and the cleanup that unmounts it sets
\* `cancelled`.
ThenCallback ==
  \E i \in 1..MaxRuns :
    /\ Waiting(i)
    /\ PromiseState(runs[i].promise) = "resolved"
    /\ IF runs[i].cancelled
       THEN /\ runs' = [runs EXCEPT ![i].state = "fired", ![i].stale = TRUE,
                                    ![i].outcome = "skipped"]
            /\ UNCHANGED <<maps, mapRef, mapReadyRef, cleanupRef>>
       ELSE /\ runs' = [runs EXCEPT ![i].state = "fired",
                                    ![i].outcome = "map"]
            /\ maps' = Append(maps, [status |-> "live", loaded |-> FALSE,
                                     run |-> i])
            /\ mapRef' = Len(maps) + 1
            /\ mapReadyRef' = FALSE
            /\ cleanupRef' = Len(maps) + 1
    /\ UNCHANGED <<window, phase, pendingActions, log, nextAction, error>>
    /\ UNCHANGED outsideMap

\* The callback of .catch of a run.
CatchCallback ==
  \E i \in 1..MaxRuns :
    /\ Waiting(i)
    /\ PromiseState(runs[i].promise) = "rejected"
    /\ IF runs[i].cancelled
       THEN /\ runs' = [runs EXCEPT ![i].state = "fired", ![i].stale = TRUE,
                                    ![i].outcome = "skipped"]
            /\ UNCHANGED error
       ELSE /\ runs' = [runs EXCEPT ![i].state = "fired",
                                    ![i].outcome = "error"]
            /\ error' = TRUE
    /\ UNCHANGED <<window, phase, maps, mapRef, cleanupRef, mapReadyRef,
                   pendingActions, log, nextAction>>
    /\ UNCHANGED outsideMap

\* onLoad that leaves the actions it ran in the queue.
onLoadKeepingQueue ==
  \E i \in 1..MaxRuns :
    /\ i \in 1..Len(maps)
    /\ maps[i].status = "live"
    /\ ~maps[i].loaded
    /\ maps' = [maps EXCEPT ![i].loaded = TRUE]
    /\ mapReadyRef' = TRUE
    /\ log' = log \o pendingActions \o <<0>>
    /\ UNCHANGED pendingActions
    /\ UNCHANGED <<window, phase, runs, mapRef, cleanupRef, nextAction, error>>
    /\ UNCHANGED outsideMap

\* The map's "load" event: onLoad runs the queue in order, empties it and
\* calls onReady.
onLoad ==
  \E i \in 1..MaxRuns :
    /\ i \in 1..Len(maps)
    /\ maps[i].status = "live"
    /\ ~maps[i].loaded
    /\ maps' = [maps EXCEPT ![i].loaded = TRUE]
    /\ mapReadyRef' = TRUE
    /\ log' = log \o pendingActions \o <<0>>
    /\ pendingActions' = <<>>
    /\ UNCHANGED <<window, phase, runs, mapRef, cleanupRef, nextAction, error>>
    /\ UNCHANGED outsideMap

\* A method of the imperative handle: flyTo, showWorldView, setMarker or
\* clearMarker.
HandleMethod ==
  /\ phase = "mounted"
  /\ nextAction <= MaxActions
  /\ \E method \in {"flyTo", "showWorldView", "setMarker", "clearMarker"} :
       /\ pendingActions' = runOrQueue(Component, nextAction).pendingActions
       /\ log' = runOrQueue(Component, nextAction).log
  /\ nextAction' = nextAction + 1
  /\ UNCHANGED <<window, phase, runs, maps, mapRef, cleanupRef, mapReadyRef,
                 error>>
  /\ UNCHANGED outsideMap

NextMap ==
  \/ Mount
  \/ DependencyChange
  \/ Unmount
  \/ SelectedLocationChange
  \/ ImpactRingsChange
  \/ HandleMethod
  \/ ScriptOnLoad
  \/ ScriptOnError
  \/ ThenCallback
  \/ CatchCallback
  \/ onLoad

SpecMap == InitMap /\ [][NextMap]_allVars

(***************************************************************************)
(* Calls in sequence.  The page calls calculateImpact and                  *)
(* buildImpactRingCollection again and again, in any order; `calls` is the *)
(* log of the calls made: the function, its arguments and what it          *)
(* returned.  Neither function reads or writes anything but its arguments  *)
(* and its locals, so a call's result is the function of its arguments.    *)
(***************************************************************************)
MaxCalls == 3

\* The inputs of the calls: the Chicxulub and Chelyabinsk presets in m/s and a
\* degenerate input.
CallInputs ==
  {[diameter |-> Lit(4000), density |-> Lit(3477), velocity |-> Lit(4301),
    angle |-> Lit(1778)],
   [diameter |-> Lit(1301), density |-> Lit(3477), velocity |-> Lit(4279),
    angle |-> Lit(1255)],
   [diameter |-> Zero, density |-> Lit(3477), velocity |-> NaN,
    angle |-> Lit(1653)]}

CallCenters ==
  {[lat |-> FxInt(37), lng |-> FxInt(-122)], [lat |-> FxInt(80), lng |-> FxInt(7)]}

CallRingLists ==
  {list \in RingLists :
     /\ Len(list) = 2
     /\ list[1].id = "severe"
     /\ list[2].id \in {"second", "noise"}}

\* A call of calculateImpact that returns what the previous call returned
\* when there is one: a result kept between calls.
CallCalculateImpactRetaining ==
  /\ Len(calls) < MaxCalls
  /\ \E in \in CallInputs :
       /\ inputs' = in
       /\ results' = IF results = NoResults THEN calculateImpact(in) ELSE results
       /\ calls' = Append(calls, [fn |-> "calculateImpact", args |-> in,
                                 result |-> results'])
  /\ UNCHANGED <<energyMT, ozone, ringVars>>
  /\ UNCHANGED selectedMeteor
  /\ UNCHANGED restVars

\* results = calculateImpact(inputs), logged.
CallCalculateImpact ==
  /\ Len(calls) < MaxCalls
  /\ \E in \in CallInputs :
       /\ inputs' = in
       /\ results' = calculateImpact(in)
       /\ calls' = Append(calls, [fn |-> "calculateImpact", args |-> in,
                                 result |-> results'])
  /\ UNCHANGED <<energyMT, ozone, ringVars>>
  /\ UNCHANGED selectedMeteor
  /\ UNCHANGED restVars

\* collection = buildImpactRingCollection(selectedLocation, impactRings),
\* logged.
CallBuildImpactRingCollection ==
  /\ Len(calls) < MaxCalls
  /\ \E c \in CallCenters, list \in CallRingLists :
       /\ selectedLocation' = c
       /\ impactRings' = list
       /\ collection' = buildImpactRingCollection(c, list)
       /\ calls' = Append(calls, [fn |-> "buildImpactRingCollection",
                                 args |-> <<c, list>>,
                                 result |-> collection'])
  /\ UNCHANGED impactVars
  /\ UNCHANGED selectedMeteor
  /\ UNCHANGED restVars

InitCalls ==
  /\ inputs = NoInputs
  /\ results = NoResults
  /\ energyMT = NoNumber
  /\ ozone = NoNumber
  /\ selectedLocation = NoCenter
  /\ impactRings = <<>>
  /\ collection = NoCollection
  /\ calls = <<>>
  /\ selectedMeteor = NoMeteor
  /\ RestIdle

NextCalls == CallCalculateImpact \/ CallBuildImpactRingCollection

SpecCalls == InitCalls /\ [][NextCalls]_allVars

(***************************************************************************)
(* The analysis view: the page keeps the selected meteor in the units of   *)
(* the controls (velocity in km/s) and the results step converts it to the *)
(* inputs of calculateImpact.                                              *)
(***************************************************************************)
\* The presets of the page: diameter 10000, 50, 20, 50 m; velocity 20, 15,
\* 19, 12 km/s; angle 60, 30, 18, 45 degrees; density 3000, 1000, 3000, 8000;
\* coords in thousandths of a degree.
HISTORICAL_METEORS ==
  { [diameter |-> Lit(4000), velocity |-> Lit(1301), angle |-> Lit(1778),
     density |-> Lit(3477), coords |-> [lat |-> 21400, lng |-> -89500]],
    [diameter |-> Lit(1699), velocity |-> Lit(1176), angle |-> Lit(1477),
     density |-> Lit(3000), coords |-> [lat |-> 60900, lng |-> 101900]],
    [diameter |-> Lit(1301), velocity |-> Lit(1279), angle |-> Lit(1255),
     density |-> Lit(3477), coords |-> [lat |-> 55160, lng |-> 61400]],
    [diameter |-> Lit(1699), velocity |-> Lit(1079), angle |-> Lit(1653),
     density |-> Lit(3903), coords |-> [lat |-> 35027, lng |-> -111022]] }

\* The near-Earth objects of the page: diameter 4497 and 3400 m, velocity 14
\* and 20 km/s, angle 20 and 25 degrees, density 3000, no coords.
NEAR_EARTH_OBJECTS ==
  { [diameter |-> Lit(3653), velocity |-> Lit(1146), angle |-> Lit(1301),
     density |-> Lit(3477), coords |-> NoCenter],
    [diameter |-> Lit(3531), velocity |-> Lit(1301), angle |-> Lit(1398),
     density |-> Lit(3477), coords |-> NoCenter] }

\* The places a click on the map selects.
Clicks == {[lat |-> 0, lng |-> 0], [lat |-> 48850, lng |-> 2350]}

\* The states the wizard can complete with: each field at the minimum, the
\* average or the maximum of its range (diameter 10, 100, 10000 m; velocity
\* 12, 20, 72 km/s; angle 5, 45, 90 degrees; density 1000, 3000, 8000), with
\* or without a place selected on its map.
WizardStates ==
  [diameter_m : {Lit(1000), Lit(2000), Lit(4000)},
   velocity_kms : {Lit(1079), Lit(1301), Lit(1857)},
   angle_deg : {Lit(699), Lit(1653), Lit(1954)},
   density_kgm3 : {Lit(3000), Lit(3477), Lit(3903)},
   impactLocation : {NoCenter, [lat |-> 48850, lng |-> 2350]}]

\* The inputs built from the meteor with the velocity left in km/s.
impactInputsUnconverted(state) ==
  [diameter |-> state.diameter_m, density |-> state.density_kgm3,
   velocity |-> state.velocity_kms, angle |-> state.angle_deg]

impactInputs(state) ==
  [diameter |-> state.diameter_m, density |-> state.density_kgm3,
   velocity |-> Mul(state.velocity_kms, Lit(LOG_1E3)),
   angle |-> state.angle_deg]

kmsToMs(v_kms) == Mul(v_kms, Lit(LOG_1E3))

InitAnalysis ==
  /\ inputs = NoInputs
  /\ results = NoResults
  /\ energyMT = NoNumber
  /\ ozone = NoNumber
  /\ selectedLocation = NoCenter
  /\ impactRings = <<>>
  /\ collection = NoCollection
  /\ calls = <<>>
  /\ selectedMeteor = NoMeteor
  /\ RestIdle

\* The buttons of the home view.
ChooseExisting ==
  /\ currentView = "home"
  /\ currentView' = "existing"
  /\ UNCHANGED <<previousView, forceImpactEffects>>
  /\ UNCHANGED <<oldVars, outsidePage>>

ChooseCustom ==
  /\ currentView = "home"
  /\ currentView' = "custom"
  /\ UNCHANGED <<previousView, forceImpactEffects>>
  /\ UNCHANGED <<oldVars, outsidePage>>

\* The "Analyze" button of a preset, in the existing view.
handleExistingMeteorSelect ==
  /\ currentView = "existing"
  /\ \E meteor \in HISTORICAL_METEORS \cup NEAR_EARTH_OBJECTS :
       selectedMeteor' =
         [diameter_m |-> meteor.diameter, velocity_kms |-> meteor.velocity,
          angle_deg |-> meteor.angle, density_kgm3 |-> meteor.density,
          impactLocation |-> meteor.coords]
  /\ previousView' = "existing"
  /\ forceImpactEffects' = TRUE
  /\ currentView' = "analysis"
  /\ inputs' = NoInputs
  /\ results' = NoResults
  /\ UNCHANGED <<energyMT, ozone, ringVars, calls>>
  /\ UNCHANGED outsidePage

\* handleCustomMeteorComplete that leaves previousView as it was.
handleCustomMeteorCompleteUnrecorded ==
  /\ currentView = "custom"
  /\ \E meteor \in WizardStates : selectedMeteor' = meteor
  /\ forceImpactEffects' = FALSE
  /\ currentView' = "analysis"
  /\ inputs' = NoInputs
  /\ results' = NoResults
  /\ UNCHANGED <<energyMT, ozone, ringVars, calls, previousView>>
  /\ UNCHANGED outsidePage

\* onComplete of the wizard, which the custom view renders.
handleCustomMeteorComplete ==
  /\ currentView = "custom"
  /\ \E meteor \in WizardStates : selectedMeteor' = meteor
  /\ previousView' = "custom"
  /\ forceImpactEffects' = FALSE
  /\ currentView' = "analysis"
  /\ inputs' = NoInputs
  /\ results' = NoResults
  /\ UNCHANGED <<energyMT, ozone, ringVars, calls>>
  /\ UNCHANGED outsidePage

\* What the page renders: one of the four views or the fallback, null.
Rendered ==
  IF currentView = "home" THEN "home"
  ELSE IF currentView = "existing" THEN "existing"
  ELSE IF currentView = "custom" THEN "custom"
  ELSE IF currentView = "analysis" /\ selectedMeteor # NoMeteor THEN "analysis"
  ELSE "null"

\* "Start Over", a button of the analysis view.
goHome ==
  /\ Rendered = "analysis"
  /\ currentView' = "home"
  /\ selectedMeteor' = NoMeteor
  /\ previousView' = "home"
  /\ forceImpactEffects' = FALSE
  /\ inputs' = NoInputs
  /\ results' = NoResults
  /\ UNCHANGED <<energyMT, ozone, ringVars, calls>>
  /\ UNCHANGED outsidePage

\* "Back", a button of the existing, the custom and the analysis view.
goBack ==
  /\ Rendered \in {"existing", "custom", "analysis"}
  /\ IF currentView = "analysis"
     THEN /\ forceImpactEffects' = FALSE
          /\ currentView' = previousView
     ELSE /\ currentView' = "home"
          /\ UNCHANGED forceImpactEffects
  /\ inputs' = NoInputs
  /\ results' = NoResults
  /\ UNCHANGED <<energyMT, ozone, ringVars, calls, selectedMeteor,
                 previousView>>
  /\ UNCHANGED outsidePage

\* A click on the map of the analysis view.
handleLocationSelect ==
  /\ Rendered = "analysis"
  /\ \E place \in Clicks :
       selectedMeteor' =
         IF selectedMeteor = NoMeteor THEN selectedMeteor
         ELSE [selectedMeteor EXCEPT !.impactLocation = place]
  /\ UNCHANGED <<impactVars, ringVars, calls>>
  /\ UNCHANGED restVars

\* The results step, which the analysis view renders with the selected meteor.
ImpactResultsStep ==
  /\ Rendered = "analysis"
  /\ inputs' = impactInputs(selectedMeteor)
  /\ results' = calculateImpact(impactInputs(selectedMeteor))
  /\ UNCHANGED <<energyMT, ozone, ringVars, calls, selectedMeteor>>
  /\ UNCHANGED restVars

\* The analysis view of the earlier page, which builds the inputs inline.
AnalysisView ==
  /\ Rendered = "analysis"
  /\ inputs' =
       [diameter |-> selectedMeteor.diameter_m,
        density |-> selectedMeteor.density_kgm3,
        velocity |-> Mul(selectedMeteor.velocity_kms, Lit(LOG_1E3)),
        angle |-> selectedMeteor.angle_deg]
  /\ results' = calculateImpact(inputs')
  /\ UNCHANGED <<energyMT, ozone, ringVars, calls, selectedMeteor>>
  /\ UNCHANGED restVars

NextAnalysis ==
  \/ ChooseExisting
  \/ ChooseCustom
  \/ handleExistingMeteorSelect
  \/ handleCustomMeteorComplete
  \/ goBack
  \/ goHome
  \/ handleLocationSelect
  \/ ImpactResultsStep
  \/ AnalysisView

SpecAnalysis == InitAnalysis /\ [][NextAnalysis]_allVars

(***************************************************************************)
(* The wizard of the custom view: seven steps, of which the first four     *)
(* edit one field of the meteor each, and the last shows the results.      *)
(***************************************************************************)
\* The ranges of the controls: 10, 100, 10000 m; 12, 20, 72 km/s; 5, 45, 90
\* degrees; 1000, 3000, 8000 kg/m3.
DIAMETER == [min |-> Lit(1000), avg |-> Lit(2000), max |-> Lit(4000)]
VELOCITY == [min |-> Lit(1079), avg |-> Lit(1301), max |-> Lit(1857)]
ANGLE == [min |-> Lit(699), avg |-> Lit(1653), max |-> Lit(1954)]
DENSITY == [min |-> Lit(3000), avg |-> Lit(3477), max |-> Lit(3903)]

\* round(n) with places = 0: Math.round(n).  A magnitude below 0.5 rounds to
\* 0; the sliders have whole bounds and a step of 1 and report whole numbers,
\* which Math.round returns unchanged.
round(n) == IF n.k = "fin" /\ n.l < -301 THEN Zero ELSE n

\* The finite numbers a text field can hold: -10, 0 (the empty field), 3.16,
\* 10, 31.6, 100, 1000, 5012, 10000, 100000.
Typed ==
  {Fin(-1, 1000), Zero, Lit(500), Lit(1000), Lit(1500), Lit(2000), Lit(3000),
   Lit(3700), Lit(4000), Lit(5000)}

\* The whole numbers the slider of a range can report.
Slid(range) ==
  {n \in {Lit(1000), Lit(1301), Lit(1500), Lit(1653), Lit(2000), Lit(3000),
          Lit(3477), Lit(3700)} : range.min.l <= n.l /\ n.l <= range.max.l}
    \cup {range.min, range.max}

\* What one control of a step passes to `set`: the slider, the text field and
\* the three buttons.
Edits(range) ==
  {round(n) : n \in Slid(range)} \cup Typed
    \cup {range.min, range.avg, range.max}

\* `set` of the diameter step without the clamp.
DiameterSetUnclamped(st, v) == [st EXCEPT !.diameter_m = v]

\* `set` of each of the four steps.
DiameterSet(st, v) ==
  [st EXCEPT !.diameter_m = clamp(v, DIAMETER.min, DIAMETER.max)]
VelocitySet(st, v) ==
  [st EXCEPT !.velocity_kms = clamp(v, VELOCITY.min, VELOCITY.max)]
AngleSet(st, v) ==
  [st EXCEPT !.angle_deg = clamp(v, ANGLE.min, ANGLE.max)]
DensitySet(st, v) ==
  [st EXCEPT !.density_kgm3 = clamp(v, DENSITY.min, DENSITY.max)]

\* nextStep that goes on past the last step.
nextStepPastEnd(step) == [step |-> step + 1, complete |-> FALSE]

\* nextStep: the step it sets and whether it calls onComplete.  The page
\* passes an onComplete.
nextStep(step) ==
  IF step < 6 THEN [step |-> step + 1, complete |-> FALSE]
  ELSE [step |-> step, complete |-> TRUE]

prevStep(step) == IF step > 0 THEN step - 1 ELSE step

\* The custom view has just been chosen and the wizard is mounted.
InitWizard ==
  /\ inputs = NoInputs
  /\ results = NoResults
  /\ energyMT = NoNumber
  /\ ozone = NoNumber
  /\ selectedLocation = NoCenter
  /\ impactRings = <<>>
  /\ collection = NoCollection
  /\ calls = <<>>
  /\ selectedMeteor = NoMeteor
  /\ polygon = NoPolygon
  /\ MapIdle
  /\ currentView = "custom"
  /\ previousView = "home"
  /\ forceImpactEffects = FALSE
  /\ WizardIdle
  /\ StarsIdle

DiameterStep ==
  /\ currentView = "custom"
  /\ wizardStep = 0
  /\ \E v \in Edits(DIAMETER) : wizardState' = DiameterSet(wizardState, v)
  /\ UNCHANGED <<wizardStep, oldVars, polygon, mapVars, pageVars, starVars>>

VelocityStep ==
  /\ currentView = "custom"
  /\ wizardStep = 1
  /\ \E v \in Edits(VELOCITY) : wizardState' = VelocitySet(wizardState, v)
  /\ UNCHANGED <<wizardStep, oldVars, polygon, mapVars, pageVars, starVars>>

AngleStep ==
  /\ currentView = "custom"
  /\ wizardStep = 2
  /\ \E v \in Edits(ANGLE) : wizardState' = AngleSet(wizardState, v)
  /\ UNCHANGED <<wizardStep, oldVars, polygon, mapVars, pageVars, starVars>>

DensityStep ==
  /\ currentView = "custom"
  /\ wizardStep = 3
  /\ \E v \in Edits(DENSITY) : wizardState' = DensitySet(wizardState, v)
  /\ UNCHANGED <<wizardStep, oldVars, polygon, mapVars, pageVars, starVars>>

\* onLocationSelect of the wizard's MeteorVisualization.
WizardLocationSelect ==
  /\ currentView = "custom"
  /\ \E place \in Clicks :
       wizardState' = [wizardState EXCEPT !.impactLocation = place]
  /\ UNCHANGED <<wizardStep, oldVars, polygon, mapVars, pageVars, starVars>>

\* The "Next" button.  onComplete is handleCustomMeteorComplete of the page.
NextButton ==
  /\ currentView = "custom"
  /\ wizardStep' = nextStep(wizardStep).step
  /\ IF nextStep(wizardStep).complete
     THEN /\ selectedMeteor' = wizardState
          /\ previousView' = "custom"
          /\ forceImpactEffects' = FALSE
          /\ currentView' = "analysis"
     ELSE UNCHANGED <<selectedMeteor, pageVars>>
  /\ inputs' = NoInputs
  /\ results' = NoResults
  /\ UNCHANGED <<wizardState, energyMT, ozone, ringVars, calls, polygon,
                 mapVars, starVars>>

\* The "Previous" button.
PreviousButton ==
  /\ currentView = "custom"
  /\ wizardStep' = prevStep(wizardStep)
  /\ inputs' = NoInputs
  /\ results' = NoResults
  /\ UNCHANGED <<wizardState, energyMT, ozone, ringVars, calls, selectedMeteor,
                 polygon, mapVars, pageVars, starVars>>

\* The results step of the wizard, rendered at step 6 with the wizard's state.
WizardResultsStep ==
  /\ currentView = "custom"
  /\ wizardStep = 6
  /\ inputs' = impactInputs(wizardState)
  /\ results' = calculateImpact(impactInputs(wizardState))
  /\ UNCHANGED <<energyMT, ozone, ringVars, calls, selectedMeteor>>
  /\ UNCHANGED restVars

NextWizard ==
  \/ DiameterStep
  \/ VelocityStep
  \/ AngleStep
  \/ DensityStep
  \/ WizardLocationSelect
  \/ NextButton
  \/ PreviousButton
  \/ WizardResultsStep

SpecWizard == InitWizard /\ [][NextWizard]_allVars

(***************************************************************************)
(* The star field of the velocity step (CanvasStars).                      *)
(*                                                                         *)
(* Times are in units of 16 ms, the dt a frame takes after a long gap; the *)
(* spawn interval is rounded down to the unit.  A star's position is in    *)
(* pixels on a stage 50 pixels wide; what a frame subtracts from it,       *)
(* -vx * dt, depends on the star's smoothed speed and on the frame's       *)
(* length, and is taken to be any of 0 (less than a pixel) and Stride for  *)
(* each star, 0 when dt is 0.  The cap of the pool, 140 in the source, is  *)
(* scaled down to MAX_DOTS so that the pool fills.                         *)
(***************************************************************************)
MAX_DOTS == 3
MAX_TRAIL_LEN == 8
MaxTs == 25
ClientWidth == 50
Stride == 50
Exit == -50

\* The velocities the prop takes: below and above the range.
StarVelocities == {5, 100}

\* Math.min(72, Math.max(12, velocity)) of the effect on [velocity].
clampVelocity(v) == IF v < 12 THEN 12 ELSE IF v > 72 THEN 72 ELSE v

\* getParams, with norm = (v - 12) / 60: spawnInterval = 1 / (4 + norm * 10)
\* seconds, which is 375 / (v + 12) units, and
\* trailLenLive = Math.round(2 + norm * 6).
spawnInterval(v) == 375 \div (v + 12)
trailLenLive(v) == (v + 13) \div 10

\* The time between two frames: 80 ms and half a second.
Gaps == {5, 31}

\* dt of a frame: 0 when no timestamp is remembered, and 0.016 s in place of
\* a gap above 0.08 s.
frameDt(remembered, gap) ==
  IF ~remembered THEN 0 ELSE IF gap > 5 THEN 1 ELSE gap

\* The body of the loop of tick for one star that moves by `advance`.
Moved(d, live, advance) ==
  [d EXCEPT !.head = (d.head + 1) % MAX_TRAIL_LEN,
            !.len = IF live < d.len + 1
                    THEN (IF MAX_TRAIL_LEN < live THEN MAX_TRAIL_LEN ELSE live)
                    ELSE (IF MAX_TRAIL_LEN < d.len + 1 THEN MAX_TRAIL_LEN
                          ELSE d.len + 1),
            !.x = d.x - advance]

Onstage(d) == d.x > Exit

\* The compaction of the loop: poolRef.current[write++] = d if d.x > -50.
Compact(ds) == SelectSeq(ds, Onstage)

\* spawn: a star at the right edge with an empty trail.
spawn(ds, id) ==
  IF Len(ds) >= MAX_DOTS THEN ds
  ELSE Append(ds, [id |-> id, x |-> ClientWidth, head |-> 0, len |-> 0])

\* The spawn of a frame that catches up with the rate.
SpawnCatchingUp(ds, acc, interval, id) ==
  IF acc >= 2 * interval
  THEN Append(Append(ds, [id |-> id, x |-> ClientWidth, head |-> 0,
                          len |-> 0]),
              [id |-> id + 1, x |-> ClientWidth, head |-> 0, len |-> 0])
  ELSE IF acc >= interval /\ Len(ds) < MAX_DOTS THEN spawn(ds, id)
  ELSE ds

\* The spawn of a frame: one star at most.
Spawn(ds, acc, interval, id) ==
  IF acc >= interval /\ Len(ds) < MAX_DOTS THEN spawn(ds, id) ELSE ds

\* The accumulator after the frame.
Accumulated(acc, interval) ==
  IF acc >= interval THEN acc - (acc \div interval) * interval ELSE acc

\* The wizard is mounted at step 0: CanvasStars is not enabled.
InitStars ==
  /\ inputs = NoInputs
  /\ results = NoResults
  /\ energyMT = NoNumber
  /\ ozone = NoNumber
  /\ selectedLocation = NoCenter
  /\ impactRings = <<>>
  /\ collection = NoCollection
  /\ calls = <<>>
  /\ selectedMeteor = NoMeteor
  /\ polygon = NoPolygon
  /\ MapIdle
  /\ PageIdle
  /\ WizardIdle
  /\ StarsIdle

\* The effect on [velocity].
VelocityChange ==
  /\ \E v \in StarVelocities : velRef' = clampVelocity(v)
  /\ UNCHANGED <<poolRef, spawnAccRef, clock, lastTsRef, rafRef, enabled,
                 hidden, nextStar, frame>>
  /\ UNCHANGED outsideStars

\* The effect on [enabled, stageRef]: its cleanup stops the frames, and it
\* starts them if the component is enabled.
EnabledChange ==
  /\ enabled' = ~enabled
  /\ rafRef' = enabled'
  /\ lastTsRef' = IF enabled' THEN FALSE ELSE lastTsRef
  /\ UNCHANGED <<poolRef, spawnAccRef, clock, velRef, hidden, nextStar, frame>>
  /\ UNCHANGED outsideStars

\* onVis: the document is hidden or shown.
VisibilityChange ==
  /\ hidden' = ~hidden
  /\ IF hidden'
     THEN /\ rafRef' = FALSE
          /\ spawnAccRef' = 0
          /\ lastTsRef' = FALSE
     ELSE IF enabled
     THEN /\ rafRef' = TRUE
          /\ lastTsRef' = IF rafRef THEN lastTsRef ELSE FALSE
          /\ UNCHANGED spawnAccRef
     ELSE UNCHANGED <<rafRef, spawnAccRef, lastTsRef>>
  /\ UNCHANGED <<poolRef, clock, velRef, enabled, nextStar, frame>>
  /\ UNCHANGED outsideStars

\* One frame.
tick ==
  /\ rafRef
  /\ \E gap \in Gaps :
       /\ clock + gap <= MaxTs
       /\ clock' = clock + gap
       /\ \E advance \in [1..Len(poolRef) -> {0, Stride}] :
         /\ frame' =
              [i \in 1..Len(poolRef) |->
                 Moved(poolRef[i], trailLenLive(velRef),
                       IF frameDt(lastTsRef, gap) = 0 THEN 0 ELSE advance[i])]
         /\ poolRef' =
              Spawn(Compact(frame'),
                    spawnAccRef + frameDt(lastTsRef, gap),
                    spawnInterval(velRef), nextStar)
         /\ nextStar' = nextStar + Len(poolRef') - Len(Compact(frame'))
         /\ spawnAccRef' =
              Accumulated(spawnAccRef + frameDt(lastTsRef, gap),
                          spawnInterval(velRef))
  /\ lastTsRef' = TRUE
  /\ UNCHANGED <<velRef, rafRef, enabled, hidden>>
  /\ UNCHANGED outsideStars

NextStars == VelocityChange \/ EnabledChange \/ VisibilityChange \/ tick

SpecStars == InitStars /\ [][NextStars]_allVars

(***************************************************************************)
(* Properties of the impact model.                                         *)
(***************************************************************************)
Called == results # NoResults

\* The nine fields calculateImpact passes through safe(), each with the local
\* of the function it is taken from.
SafeFields ==
  {"mass", "kineticEnergy", "energyTNT", "volcanoEquivalent", "craterDiameter",
   "severeDamageRadius", "thirdDegreeBurnRadius", "secondDegreeBurnRadius",
   "noiseDamageRadius"}
NumericFields == SafeFields \cup {"ozoneDepletionPercent"}
LabelFields == {"acidRainSeverity", "climateImpact"}
RawOf(q, f) == IF f = "energyTNT" THEN q.E_tons ELSE q[f]
DamageRadii ==
  {"severeDamageRadius", "thirdDegreeBurnRadius", "secondDegreeBurnRadius",
   "noiseDamageRadius"}

\* C1: for every input (valid, degenerate, non-finite) the returned
\* secondDegreeBurnRadius is >= the returned thirdDegreeBurnRadius.
C1_BurnRadiusOrdering ==
  Called => Ge(results.secondDegreeBurnRadius, results.thirdDegreeBurnRadius)

\* A call whose burn radii are positive and distinct has returned.
C1_Witness ==
  /\ Called
  /\ Gt(results.thirdDegreeBurnRadius, Zero)
  /\ Gt(results.secondDegreeBurnRadius, results.thirdDegreeBurnRadius)

\* C2: every numeric field returned is finite and >= 0, and a field whose
\* intermediate value is NaN, infinite or non-positive is returned as 0.
C2_FiniteNonNegative ==
  Called =>
    /\ \A f \in NumericFields : isFinite(results[f]) /\ Ge(results[f], Zero)
    /\ \A f \in SafeFields :
         LET x == RawOf(rawImpact(inputs), f)
         IN (IsNaN(x) \/ x.k = "inf" \/ Le(x, Zero)) => results[f] = Zero

\* A call has returned whose kinetic energy overflowed to Infinity and whose
\* crater diameter was NaN: both came back as 0.
C2_Witness ==
  /\ Called
  /\ rawImpact(inputs).kineticEnergy = PosInf
  /\ IsNaN(rawImpact(inputs).craterDiameter)
  /\ results.kineticEnergy = Zero
  /\ results.craterDiameter = Zero

\* C3: calculateImpact is total: for any numeric inputs, degenerate and
\* non-finite ones included, the call has a value (it raises nothing) and what
\* it returns is the complete bundle of twelve fields.
C3_Total ==
  /\ inputs # NoInputs =>
       DOMAIN calculateImpact(inputs) = NumericFields \cup LabelFields
  /\ Called =>
       /\ DOMAIN results = NumericFields \cup LabelFields
       /\ Cardinality(DOMAIN results) = 12
       /\ \A f \in NumericFields : results[f].k \in {"nan", "inf", "zero", "fin"}

\* A call on a non-positive diameter, a NaN velocity and a non-positive angle
\* has returned.
C3_Witness ==
  /\ Called
  /\ Le(inputs.diameter, Zero)
  /\ IsNaN(inputs.velocity)
  /\ Le(inputs.angle, Zero)

\* C4: a non-positive or non-finite diameter or velocity zeroes the fields that
\* depend on it: velocity <= 0 or non-finite gives kineticEnergy, energyTNT,
\* volcanoEquivalent, craterDiameter and the four radii 0; diameter <= 0 or
\* non-finite gives mass, kineticEnergy, energyTNT, craterDiameter and the
\* four radii 0.
C4_DegenerateInputsZeroed ==
  Called =>
    /\ (Le(inputs.velocity, Zero) \/ ~isFinite(inputs.velocity)) =>
         \A f \in {"kineticEnergy", "energyTNT", "volcanoEquivalent",
                   "craterDiameter"} \cup DamageRadii : results[f] = Zero
    /\ (Le(inputs.diameter, Zero) \/ ~isFinite(inputs.diameter)) =>
         \A f \in {"mass", "kineticEnergy", "energyTNT", "craterDiameter"}
                   \cup DamageRadii : results[f] = Zero

\* C9 as stated: estimateOzoneDepletion returns a value in [0, 50] for every
\* argument, 0 for a non-positive or non-finite yield, is non-decreasing in the
\* yield over all arguments, and calculateImpact's ozoneDepletionPercent is
\* within [0, 50].
InOzoneRange(x) == Ge(x, Zero) /\ Le(x, Lit(LOG_OZONE_CAP))

C9_OzoneAsStated ==
  /\ ozone # NoNumber =>
       /\ InOzoneRange(ozone)
       /\ (~isFinite(energyMT) \/ Le(energyMT, Zero)) => ozone = Zero
       /\ \A y \in Yields :
            Le(y, energyMT) => Le(estimateOzoneDepletion(y), ozone)
  /\ Called => InOzoneRange(results.ozoneDepletionPercent)

\* C9 amended: the same, with the estimator non-decreasing over the finite
\* yields (at +Infinity it returns 0, below its value of 50 at large finite
\* yields).
C9_OzoneBounded ==
  /\ ozone # NoNumber =>
       /\ InOzoneRange(ozone)
       /\ (~isFinite(energyMT) \/ Le(energyMT, Zero)) => ozone = Zero
       /\ \A y \in Yields :
            (isFinite(y) /\ isFinite(energyMT) /\ Le(y, energyMT))
              => Le(estimateOzoneDepletion(y), ozone)
  /\ Called => InOzoneRange(results.ozoneDepletionPercent)

\* The estimator has returned the cap of 50 for a finite yield, above its value
\* at a smaller positive yield.
C9_Witness ==
  /\ ozone = Lit(LOG_OZONE_CAP)
  /\ isFinite(energyMT)
  /\ \E y \in Yields :
       /\ Lt(Zero, y) /\ Lt(y, energyMT)
       /\ Lt(Zero, estimateOzoneDepletion(y))
       /\ Lt(estimateOzoneDepletion(y), ozone)

\* C10: acidRainSeverity is decided by the raw kinetic energy in joules with
\* inclusive lower thresholds: >= 1e18 severe, >= 1e16 and < 1e18 regional,
\* anything else localized; exactly one of the three labels is returned.
C10_AcidRainThresholds ==
  Called =>
    LET ke == rawImpact(inputs).kineticEnergy
        label == results.acidRainSeverity
    IN /\ label \in {"Severe acid rain likely (global)",
                     "Regional acid rain possible",
                     "Localized acid rain possible"}
       /\ (label = "Severe acid rain likely (global)")
            <=> Ge(ke, Lit(LOG_ACID_SEVERE))
       /\ (label = "Regional acid rain possible")
            <=> (Ge(ke, Lit(LOG_ACID_REGIONAL)) /\ Lt(ke, Lit(LOG_ACID_SEVERE)))

\* A call whose raw kinetic energy is exactly 1e18 J has returned.
C10_Witness ==
  /\ Called
  /\ rawImpact(inputs).kineticEnergy = Lit(LOG_ACID_SEVERE)
  /\ results.acidRainSeverity = "Severe acid rain likely (global)"

\* C11: climateImpact is decided by the megaton yield E_Mt with strict upper
\* thresholds: E_Mt < 1 gives "Negligible global climate impact",
\* 1 <= E_Mt < 1000 gives "Regional cooling ('mini impact winter')" and
\* E_Mt >= 1000 gives "Global impact winter (years of cooling) followed by
\* greenhouse warming".
C11_ClimateThresholds ==
  Called =>
    LET E_Mt == rawImpact(inputs).E_Mt
    IN /\ Lt(E_Mt, Lit(0)) =>
            results.climateImpact = "Negligible global climate impact"
       /\ (Ge(E_Mt, Lit(0)) /\ Lt(E_Mt, Lit(LOG_1E3))) =>
            results.climateImpact = "Regional cooling ('mini impact winter')"
       /\ Ge(E_Mt, Lit(LOG_1E3)) =>
            results.climateImpact =
              "Global impact winter (years of cooling) followed by greenhouse warming"

\* A call whose yield is exactly 1 Mt has returned the regional label.
C11_Witness ==
  /\ Called
  /\ rawImpact(inputs).E_Mt = Lit(0)
  /\ results.climateImpact = "Regional cooling ('mini impact winter')"

\* The crater diameter returned for the inputs with their angle replaced.
CraterAtAngle(a) == calculateImpact([inputs EXCEPT !.angle = a]).craterDiameter

\* C12: the crater computation clamps the angle to [0.1, 90] degrees: with the
\* other inputs fixed, every angle <= 0.1 gives the same craterDiameter, every
\* angle >= 90 gives the craterDiameter of 90, and the value at 90 is the
\* maximum over all angles.
C12_AngleClamped ==
  Called =>
    \A a \in Angles :
      /\ (Le(inputs.angle, Lit(LOG_ANGLE_MIN)) /\ Le(a, Lit(LOG_ANGLE_MIN))) =>
           /\ CraterAtAngle(a) = results.craterDiameter
           /\ calculateCraterDiameter(inputs.diameter, inputs.density,
                                      inputs.velocity, a)
                = calculateCraterDiameter(inputs.diameter, inputs.density,
                                          inputs.velocity, inputs.angle)
      /\ (Ge(inputs.angle, Lit(LOG_ANGLE_MAX)) /\ Ge(a, Lit(LOG_ANGLE_MAX))) =>
           CraterAtAngle(a) = CraterAtAngle(Lit(LOG_ANGLE_MAX))
      /\ inputs.angle = Lit(LOG_ANGLE_MAX) =>
           Le(CraterAtAngle(a), results.craterDiameter)

\* A call at angle 0 has returned a positive crater diameter, that of angle
\* 0.05; and the crater of angle 90 is larger.
C12_Witness ==
  /\ Called
  /\ inputs.angle = Zero
  /\ Gt(results.craterDiameter, Zero)
  /\ CraterAtAngle(Lit(-1301)) = results.craterDiameter
  /\ Gt(CraterAtAngle(Lit(LOG_ANGLE_MAX)), results.craterDiameter)

\* The outputs that grow with the impactor: the yield, the crater and the
\* four damage radii.
GrowingFields == {"energyTNT", "craterDiameter"} \cup DamageRadii

\* A positive number: finite and above 0.
Positive(x) == isFinite(x) /\ Gt(x, Zero)

PositiveInputs ==
  /\ Positive(inputs.diameter)
  /\ Positive(inputs.density)
  /\ Positive(inputs.velocity)
  /\ Positive(inputs.angle)

\* The call with a larger diameter d, or a larger velocity v, returns more in
\* field f.
MoreAtDiameter(d, f) ==
  Lt(results[f], calculateImpact([inputs EXCEPT !.diameter = d])[f])
MoreAtVelocity(v, f) ==
  Lt(results[f], calculateImpact([inputs EXCEPT !.velocity = v])[f])

\* Field f of the call with a larger diameter d, or velocity v, did not
\* overflow, and field f of this call is not 0.
InRangeAtDiameter(d, f) ==
  /\ isFinite(RawOf(rawImpact([inputs EXCEPT !.diameter = d]), f))
  /\ Gt(results[f], Zero)
InRangeAtVelocity(v, f) ==
  /\ isFinite(RawOf(rawImpact([inputs EXCEPT !.velocity = v]), f))
  /\ Gt(results[f], Zero)

\* C13 as stated: for fixed positive density, velocity and angle, energyTNT,
\* craterDiameter and the four damage radii are strictly increasing in the
\* diameter over all positive diameters, and for fixed positive diameter,
\* density and angle they are strictly increasing in the velocity over all
\* positive velocities.
C13_StrictlyIncreasing ==
  (Called /\ PositiveInputs) =>
    \A f \in GrowingFields :
      /\ \A d \in Diameters :
           (Positive(d) /\ Gt(d, inputs.diameter)) => MoreAtDiameter(d, f)
      /\ \A v \in Velocities :
           (Positive(v) /\ Gt(v, inputs.velocity)) => MoreAtVelocity(v, f)

\* C13 amended: the same outputs are strictly increasing in the diameter and
\* in the velocity as long as they stay in the range of the finite doubles: a
\* larger diameter or velocity whose output does not overflow returns more
\* than a smaller one whose output is not 0.
C13_IncreasingInRange ==
  (Called /\ PositiveInputs) =>
    \A f \in GrowingFields :
      /\ \A d \in Diameters :
           (Positive(d) /\ Gt(d, inputs.diameter) /\ InRangeAtDiameter(d, f)) =>
             MoreAtDiameter(d, f)
      /\ \A v \in Velocities :
           (Positive(v) /\ Gt(v, inputs.velocity) /\ InRangeAtVelocity(v, f)) =>
             MoreAtVelocity(v, f)

\* A call on positive finite inputs has returned, and a larger diameter and a
\* larger velocity exist whose outputs are all in range.
C13_Witness ==
  /\ Called
  /\ PositiveInputs
  /\ \E d \in Diameters :
       /\ Gt(d, inputs.diameter)
       /\ \A f \in GrowingFields : InRangeAtDiameter(d, f) /\ MoreAtDiameter(d, f)
  /\ \E v \in Velocities :
       /\ Gt(v, inputs.velocity)
       /\ \A f \in GrowingFields : InRangeAtVelocity(v, f) /\ MoreAtVelocity(v, f)

(***************************************************************************)
(* Properties of the ring builder.                                         *)
(***************************************************************************)
Built == collection # NoCollection

\* The radii of a list of rings or of features' properties, in order.
RadiiOf(list) == [i \in DOMAIN list |-> FxVal(list[i].radiusKm)]
FeatureRadii == [i \in DOMAIN collection.features |->
                   FxVal(collection.features[i].properties.radiusKm)]

\* The properties a feature carries for a ring.
RingProperties(ring) ==
  [id |-> ring.id, color |-> ring.color, label |-> ring.label,
   radiusKm |-> ring.radiusKm]

\* Two coordinates in degrees agree within the resolution of the fixed-point
\* arithmetic: Tolerance millionths of a degree.
Tolerance == 1000
Near(x, y) ==
  /\ FxVal(x) - FxVal(y) <= Tolerance
  /\ FxVal(y) - FxVal(x) <= Tolerance

\* C5: buildImpactRingCollection emits its features in descending order of
\* radiusKm, whatever the order of the input rings: no feature has a smaller
\* radius than a feature after it.
C5_DescendingRadius ==
  Built =>
    \A i, j \in DOMAIN collection.features :
      i < j => ~FxLt(collection.features[i].properties.radiusKm,
                     collection.features[j].properties.radiusKm)

\* Radii [10, 50, 25] come out as [50, 25, 10].
C5_Witness ==
  /\ Built
  /\ RadiiOf(impactRings) = <<10 * Scale, 50 * Scale, 25 * Scale>>
  /\ FeatureRadii = <<50 * Scale, 25 * Scale, 10 * Scale>>

\* C6: every polygon built with the default 128 steps has exactly 129
\* vertices and is closed: its first vertex equals its last vertex.
C6_RingClosed ==
  Built =>
    \A i \in DOMAIN collection.features :
      LET ring == collection.features[i].geometry.coordinates[1]
      IN /\ Len(ring) = 129
         /\ Near(ring[1][1], ring[Len(ring)][1])
         /\ Near(ring[1][2], ring[Len(ring)][2])

\* C7: a ring whose radiusKm is zero or negative degenerates to the center:
\* every vertex is (center.lng, center.lat), longitude first, at every
\* center, the poles included.
C7_ZeroRadiusAtCenter ==
  Built =>
    \A i \in DOMAIN collection.features :
      ~FxLt(FxInt(0), collection.features[i].properties.radiusKm) =>
        \A v \in DOMAIN collection.features[i].geometry.coordinates[1] :
          LET vertex == collection.features[i].geometry.coordinates[1][v]
          IN /\ Len(vertex) = 2
             /\ Near(vertex[1], selectedLocation.lng)
             /\ Near(vertex[2], selectedLocation.lat)

\* A collection built at a pole with a zero and a negative radius among its
\* rings.
C7_Witness ==
  /\ Built
  /\ selectedLocation.lat.m = 90 * Scale
  /\ selectedLocation.lng.m # 90 * Scale
  /\ \E i, j \in DOMAIN collection.features :
       /\ collection.features[i].properties.radiusKm = FxInt(0)
       /\ collection.features[j].properties.radiusKm.neg
       /\ collection.features[j].properties.radiusKm.m > 0

\* C8: the collection has exactly one feature per input ring, a permutation
\* of the input (none for an empty input), and each feature carries its
\* ring's id, color, label and radiusKm unchanged.
C8_OneFeaturePerRing ==
  Built =>
    /\ collection.type = "FeatureCollection"
    /\ Len(collection.features) = Len(impactRings)
    /\ impactRings = <<>> => collection.features = <<>>
    /\ \A i \in DOMAIN impactRings :
         Cardinality({j \in DOMAIN collection.features :
                        collection.features[j].properties
                          = RingProperties(impactRings[i])}) = 1
    /\ \A j \in DOMAIN collection.features :
         /\ collection.features[j].type = "Feature"
         /\ DOMAIN collection.features[j].properties
              = {"id", "color", "label", "radiusKm"}

\* Three rings out of order, one without a color, one of no positive radius.
C8_Witness ==
  /\ Built
  /\ Len(impactRings) = 3
  /\ Len(collection.features) = 3
  /\ \E i \in DOMAIN impactRings : impactRings[i].color = Undefined
  /\ \E i \in DOMAIN impactRings : ~FxLt(FxInt(0), impactRings[i].radiusKm)
  /\ FeatureRadii # RadiiOf(impactRings)

\* C15: buildImpactRingCollection leaves its arguments unchanged: after the
\* call the caller's rings array has the same elements in the same order and
\* the center has the same lat and lng.
C15_ArgumentsUnchanged ==
  [][(collection = NoCollection /\ collection' # NoCollection) =>
       /\ impactRings' = impactRings
       /\ selectedLocation'.lat = selectedLocation.lat
       /\ selectedLocation'.lng = selectedLocation.lng]_allVars

\* A call on an array that is not in descending order has returned: the
\* features are sorted and the array is as it was.
C15_Witness ==
  /\ Built
  /\ Len(impactRings) = 3
  /\ FxLt(impactRings[1].radiusKm, impactRings[2].radiusKm)
  /\ FxLt(impactRings[2].radiusKm, impactRings[3].radiusKm)
  /\ FxLt(collection.features[3].properties.radiusKm,
          collection.features[1].properties.radiusKm)

ChicxulubInputs ==
  [diameter |-> Lit(4000), density |-> Lit(3477), velocity |-> Lit(4301),
   angle |-> Lit(1778)]
ChelyabinskInputs ==
  [diameter |-> Lit(1301), density |-> Lit(3477), velocity |-> Lit(4279),
   angle |-> Lit(1255)]

\* C16: the inputs {diameter 10000, density 3000, velocity 20000, angle 60}
\* give the climateImpact of a global impact winter, and the inputs
\* {diameter 20, density 3000, velocity 19000, angle 18} give a negligible
\* climateImpact and the localized acidRainSeverity.
C16_Scenarios ==
  \A i \in DOMAIN calls :
    /\ (calls[i].fn = "calculateImpact" /\ calls[i].args = ChicxulubInputs) =>
         calls[i].result.climateImpact =
           "Global impact winter (years of cooling) followed by greenhouse warming"
    /\ (calls[i].fn = "calculateImpact" /\ calls[i].args = ChelyabinskInputs) =>
         /\ calls[i].result.climateImpact = "Negligible global climate impact"
         /\ calls[i].result.acidRainSeverity = "Localized acid rain possible"

\* Both scenarios have been computed.
C16_Witness ==
  /\ \E i \in DOMAIN calls :
       calls[i].fn = "calculateImpact" /\ calls[i].args = ChicxulubInputs
  /\ \E i \in DOMAIN calls :
       calls[i].fn = "calculateImpact" /\ calls[i].args = ChelyabinskInputs

(***************************************************************************)
(* Properties of the analysis view.                                        *)
(***************************************************************************)
\* C17: wherever calculateImpact is called, the velocity passed is the
\* velocity of the controls in km/s times 1000 (three decades more), and the
\* diameter, the density and the angle are passed as they are.
C17_VelocityConverted ==
  Called =>
    /\ inputs.velocity.k = "fin"
    /\ inputs.velocity.s = selectedMeteor.velocity_kms.s
    /\ inputs.velocity.l = selectedMeteor.velocity_kms.l + 3000
    /\ inputs.velocity = kmsToMs(selectedMeteor.velocity_kms)
    /\ inputs.diameter = selectedMeteor.diameter_m
    /\ inputs.density = selectedMeteor.density_kgm3
    /\ inputs.angle = selectedMeteor.angle_deg

\* The preset of 19 km/s has been analysed with a velocity of 19000 m/s.
C17_Witness ==
  /\ Called
  /\ selectedMeteor.velocity_kms = Lit(1279)
  /\ inputs = ChelyabinskInputs
  /\ results = calculateImpact(ChelyabinskInputs)

(***************************************************************************)
(* Properties of the yield.                                                *)
(***************************************************************************)
\* The four damage radii a call returns.
RadiiReturned(r) == [f \in DamageRadii |-> r[f]]

\* Every kinetic energy the inputs can have, with the damage radii returned
\* for it.
EnergyRadii ==
  {<<rawImpact(in).kineticEnergy, RadiiReturned(calculateImpact(in))>> :
     in \in [diameter : Diameters, density : Densities,
             velocity : Velocities, angle : Angles]}

\* Every input with the kinetic energy ke has the damage radii radii.
RadiiOfEnergy(ke, radii) == \A p \in EnergyRadii : p[1] = ke => p[2] = radii

\* The yield in tons is large enough for the megaton yield divided by 200 to
\* be a positive number.
Sizeable(tons) ==
  isFinite(tons) /\ Gt(tons, Zero) /\ tons.l - LOG_1E6 - LOG_KRAKATOA >= MinLog

\* C19: the four damage radii depend on the kinetic energy only: every input
\* with the kinetic energy of this call has the damage radii of this call,
\* whatever its diameter, density, velocity and angle.  The noise radius is
\* 15 * (tons / 1e3)^0.25, the other three are 4.5 * Mt^(1/3), 8 * Mt^0.4 and
\* 13 * Mt^0.4 with Mt = tons / 1e6, and volcanoEquivalent is Mt / 200.
C19_RadiiOfYieldOnly ==
  Called =>
    /\ RadiiOfEnergy(rawImpact(inputs).kineticEnergy, RadiiReturned(results))
    /\ Sizeable(results.energyTNT) =>
         /\ results.noiseDamageRadius =
              Fin(1, LOG_NOISE + (results.energyTNT.l - 3000) \div 4)
         /\ results.severeDamageRadius =
              Fin(1, LOG_SEVERE + (results.energyTNT.l - 6000) \div 3)
         /\ results.thirdDegreeBurnRadius =
              Fin(1, LOG_THIRD + (2 * (results.energyTNT.l - 6000)) \div 5)
         /\ results.secondDegreeBurnRadius =
              Fin(1, LOG_SECOND + (2 * (results.energyTNT.l - 6000)) \div 5)
         /\ results.volcanoEquivalent =
              Fin(1, results.energyTNT.l - 6000 - LOG_KRAKATOA)

\* A call of diameter 100 and velocity 2000 has returned positive radii; the
\* input of diameter 10 and velocity 10^4.8, with a different angle, has the
\* same kinetic energy.
C19_Witness ==
  /\ Called
  /\ inputs.diameter = Lit(2000)
  /\ inputs.velocity = Lit(3301)
  /\ inputs.angle = Lit(1653)
  /\ Sizeable(results.energyTNT)
  /\ Gt(results.noiseDamageRadius, results.severeDamageRadius)
  /\ rawImpact([inputs EXCEPT !.diameter = Lit(1000), !.velocity = Lit(4801),
                              !.angle = Lit(1954)]).kineticEnergy
       = rawImpact(inputs).kineticEnergy

\* The yields k^4 megatons for k = 1, 2, 3, 10, 20 with min(50, 5 * k): 1 and
\* 5, 16 and 10, 81 and 15, 10^4 and 50, 160000 and 50.
FourthPowers ==
  {<<Lit(0), Lit(LOG_OZONE)>>, <<Lit(1204), Lit(1000)>>,
   <<Lit(1908), Lit(1176)>>, <<Lit(4000), Lit(LOG_OZONE_CAP)>>,
   <<Lit(5204), Lit(LOG_OZONE_CAP)>>}

C22_LabelMatchesYield ==
  Called =>
    (Lt(results.energyTNT, Lit(LOG_1E6)) =>
       results.climateImpact = "Negligible global climate impact")

\* The raw second-degree value of a call, 13.0 * E_Mt^0.40, before the guard.
SecondRaw(q) == Mul(Lit(LOG_SECOND), MathPow(q.E_Mt, 2, 5))

\* C23: the raw second-degree value 13.0 * E_Mt^0.40 is never smaller than
\* the third-degree value 8.0 * E_Mt^0.40, so the guard does not execute and
\* the second-degree radius is the raw value; for every positive finite
\* yield secondDegreeBurnRadius is 13/8 of thirdDegreeBurnRadius (211
\* thousandths of a decade more).
C23_GuardNeverTaken ==
  Called =>
    /\ ~Lt(SecondRaw(rawImpact(inputs)), rawImpact(inputs).thirdDegreeBurnRadius)
    /\ rawImpact(inputs).secondDegreeBurnRadius = SecondRaw(rawImpact(inputs))
    /\ Positive(rawImpact(inputs).E_Mt) =>
         /\ results.thirdDegreeBurnRadius.k = "fin"
         /\ results.secondDegreeBurnRadius.k = "fin"
         /\ results.secondDegreeBurnRadius.l
              = results.thirdDegreeBurnRadius.l + 211

\* A call with a yield of exactly 1 Mt has returned 8 km and 13 km.
C23_Witness ==
  /\ Called
  /\ rawImpact(inputs).E_Mt = Lit(0)
  /\ results.thirdDegreeBurnRadius = Lit(LOG_THIRD)
  /\ results.secondDegreeBurnRadius = Lit(LOG_SECOND)

(***************************************************************************)
(* Properties of the vertices of a ring.                                   *)
(***************************************************************************)
\* The point of the unit sphere at a latitude and a longitude, in millionths.
UnitVectorAt(latRad, lngRad) ==
  <<FxVal(FxMul(FxCos(latRad), FxCos(lngRad))),
    FxVal(FxMul(FxCos(latRad), FxSin(lngRad))),
    FxVal(FxSin(latRad))>>
UnitVector(lat, lng) == UnitVectorAt(toRadians(lat), toRadians(lng))

\* The square of the chord between two points of the unit sphere, in units
\* of grain millionths so that it stays within the 32-bit integers.
Square(n) == n * n
ChordSquared(p, q, grain) ==
  Square((p[1] - q[1]) \div grain) + Square((p[2] - q[2]) \div grain)
    + Square((p[3] - q[3]) \div grain)
Grain(chord) == chord \div 20000 + 1

\* The chord of the arc of radiusKm on the sphere of EARTH_RADIUS_KM:
\* 2 * sin(radiusKm / EARTH_RADIUS_KM / 2), in millionths.
ExpectedChord(radiusKm) ==
  2 * FxVal(FxSin(FxDivInt(FxDivInt(radiusKm, EARTH_RADIUS_KM), 2)))

AtLeast0(n) == IF n < 0 THEN 0 ELSE n
AtMost2(n) == IF n > 2 * Scale THEN 2 * Scale ELSE n
ChordBetween(squared, lo, hi, grain) ==
  /\ Square(lo \div grain) <= squared
  /\ squared <= Square(hi \div grain + 2)
OnCircleAt(p, q, lo, hi) ==
  ChordBetween(ChordSquared(p, q, Grain(hi)), lo, hi, Grain(hi))
OnCircleWithin(p, q, chord, tol) ==
  OnCircleAt(p, q, AtLeast0(chord - tol), AtMost2(chord + tol))

\* The fixed-point arithmetic resolves a position on the unit sphere within
\* DistanceTolerance millionths (of the radius of the sphere: 6.4 m each),
\* plus the resolution of the arcsine at the latitude, 1 / cos(lat).
DistanceTolerance == 10
LatitudeResolution(lat) == Scale \div (FxVal(FxCos(toRadians(lat))) + 1)
PositionTolerance(vertex) == DistanceTolerance + LatitudeResolution(vertex[2])

\* The vertex [lng, lat] is at great-circle distance radiusKm from center.
OnCircle(center, radiusKm, vertex) ==
  OnCircleWithin(UnitVector(center.lat, center.lng),
                 UnitVector(vertex[2], vertex[1]),
                 ExpectedChord(radiusKm), PositionTolerance(vertex))

\* The initial bearing of the great circle from center to the vertex.
BearingAt(lat1, lat2, dLng) ==
  FxAtan2(FxMul(FxSin(dLng), FxCos(lat2)),
          FxSub(FxMul(FxCos(lat1), FxSin(lat2)),
                FxMul(FxMul(FxSin(lat1), FxCos(lat2)), FxCos(dLng))))
BearingTo(center, vertex) ==
  BearingAt(toRadians(center.lat), toRadians(vertex[2]),
            toRadians(FxSub(vertex[1], center.lng)))

\* The bearing of the vertex of index i: (i / steps) * 2 * Math.PI.
Heading(i, steps) ==
  FxVal(FxMul(FxMulInt(FxDivInt(FxInt(i), steps), 2), Fx(MATH_PI)))

\* The angle between two directions, in millionths of a radian.
AngleBetween(d) == IF d > MATH_PI THEN TWO_PI - d ELSE d
AngleApart(a, b) == AngleBetween((a - b) % (TWO_PI + 1))

\* The vertex of index i is where its bearing leads: the arc between the
\* direction of the vertex and the bearing, at the distance of the ring, is
\* within BearingTolerance millionths plus the resolution of the latitude.
BearingTolerance == 30
AtBearing(center, radiusKm, vertex, i) ==
  MulMag(AngleApart(FxVal(BearingTo(center, vertex)), Heading(i, DEFAULT_STEPS)),
         ExpectedChord(radiusKm))
    <= BearingTolerance + LatitudeResolution(vertex[2])

PositiveRadii ==
  {r \in {ring.radiusKm : ring \in RingPool} : FxLt(FxInt(0), r)}

\* For each center and positive radius: every vertex of the polygon is on
\* the circle; every vertex is at its bearing.
VerticesOnCircle ==
  [c \in Centers, r \in PositiveRadii |->
     \A v \in DOMAIN CirclePolygonOf[c, r].coordinates[1] :
       OnCircle(c, r, CirclePolygonOf[c, r].coordinates[1][v])]
VerticesAtBearing ==
  [c \in Centers, r \in PositiveRadii |->
     \A v \in DOMAIN CirclePolygonOf[c, r].coordinates[1] :
       AtBearing(c, r, CirclePolygonOf[c, r].coordinates[1][v], v - 1)]

Polar(center) == FxVal(center.lat) \in {90 * Scale, -90 * Scale}

\* Every vertex of a ring of positive radius is at great-circle distance
\* radiusKm from the center, at every center.
RingsAtDistance ==
  Built =>
    \A i \in DOMAIN collection.features :
      FxLt(FxInt(0), collection.features[i].properties.radiusKm) =>
        /\ collection.features[i].geometry =
             CirclePolygonOf[selectedLocation,
                             collection.features[i].properties.radiusKm]
        /\ VerticesOnCircle[selectedLocation,
                            collection.features[i].properties.radiusKm]

\* Every vertex of a ring of positive radius around a center that is not a
\* pole is where its bearing leads.
RingsAtBearingOffPoles ==
  (Built /\ ~Polar(selectedLocation)) =>
    \A i \in DOMAIN collection.features :
      FxLt(FxInt(0), collection.features[i].properties.radiusKm) =>
        VerticesAtBearing[selectedLocation,
                          collection.features[i].properties.radiusKm]

\* C18: every vertex of the polygon of a ring of radius radiusKm > 0 lies
\* at great-circle distance radiusKm from the center on the sphere of radius
\* 6371 km, and is the destination point of its bearing (i / steps) * 2 * pi.
C18_DestinationPoints ==
  Built =>
    \A i \in DOMAIN collection.features :
      FxLt(FxInt(0), collection.features[i].properties.radiusKm) =>
        /\ collection.features[i].geometry =
             CirclePolygonOf[selectedLocation,
                             collection.features[i].properties.radiusKm]
        /\ VerticesOnCircle[selectedLocation,
                            collection.features[i].properties.radiusKm]
        /\ VerticesAtBearing[selectedLocation,
                             collection.features[i].properties.radiusKm]

(***************************************************************************)
(* Properties of one polygon of any radius.                                *)
(***************************************************************************)
Created == polygon # NoPolygon /\ polygon.ring # NoRing

RunIds == {log[i] : i \in 1..Len(log)} \ {0}
QueuedIds == {pendingActions[i] : i \in 1..Len(pendingActions)}
IsLoad == mapReadyRef' /\ ~mapReadyRef
IsCleanup == runs # <<>> /\ Len(runs') >= Len(runs)
               /\ runs'[Len(runs)].cancelled /\ ~runs[Len(runs)].cancelled

\* What one step does to the actions.  An action passed to runOrQueue in the
\* step runs in the step if the map is loaded and is queued if not.  A queued
\* action runs only in the step of "load"; that step runs the whole queue in
\* order, calls onReady after it and leaves the queue empty.  A cleanup
\* leaves the queue empty and runs nothing.  An action that left the queue
\* without running never runs, and no action runs twice.
QueueStep ==
  /\ \A a \in nextAction..(nextAction' - 1) :
       IF mapRef # 0 /\ mapReadyRef
       THEN a \in RunIds' /\ a \notin QueuedIds'
       ELSE a \in QueuedIds' /\ a \notin RunIds'
  /\ \A a \in QueuedIds : a \in RunIds' => IsLoad
  /\ IsLoad => /\ log' = log \o pendingActions \o <<0>>
               /\ pendingActions' = <<>>
  /\ IsCleanup => pendingActions' = <<>> /\ log' = log
  /\ \A a \in 1..(nextAction - 1) :
       a \notin QueuedIds => /\ a \notin QueuedIds'
                            /\ a \in RunIds' <=> a \in RunIds
  /\ \A i, j \in 1..Len(log') : log'[i] = log'[j] /\ log'[i] # 0 => i = j
  /\ QueuedIds' \cap RunIds' = {}

\* C24: an action passed to runOrQueue before the map's "load" does not run
\* before it; at "load" the queued actions run once each, in the order of the
\* queue, before onReady, and the queue is empty afterwards; an action passed
\* after "load" runs at once; the actions queued at an unmount or at a
\* re-creation of the map are dropped and never run.
C24_QueueRunsAtLoad == [][QueueStep]_allVars

\* Two actions were dropped by a re-creation of the map, the next two ran at
\* the "load" of the new map, in order and before onReady, and a fifth ran at
\* once.
C24_Witness == log = <<3, 4, 0, 5>> /\ pendingActions = <<>>

Live == {i \in 1..Len(maps) : maps[i].status = "live"}

Early == {i \in 1..Len(runs) : ~runs[i].available}

\* C29: however many times loadMapbox is called, one script element at most
\* is appended; the calls made while the library is not defined, the ones
\* made after the load failed among them, all return the one stored promise.
C29_OneScript ==
  /\ window.scripts <= 1
  /\ \A i \in Early : runs[i].promise = window.mapboxglPromise.id
  /\ \A i, j \in Early : runs[i].promise = runs[j].promise
  /\ window.mapboxglPromise # NoPromise => window.scripts = 1
  /\ Early # {} => window.mapboxglPromise.id = 1

\* The load failed after the first call and two more calls were made: three
\* calls, one script.
C29_Witness ==
  /\ window.mapboxglPromise.state = "rejected"
  /\ Len(runs) = 3
  /\ Early = {1, 2, 3}
  /\ runs[2].outcome = "error"
  /\ window.scripts = 1

(***************************************************************************)
(* Properties of the navigation of the page.                               *)
(***************************************************************************)
InAnalysis ==
  currentView = "analysis" =>
    /\ selectedMeteor # NoMeteor
    /\ previousView \in {"existing", "custom"}

\* Entering the analysis records the view it is entered from, which stays
\* recorded while the analysis is shown; the analysis is left by "Back" to
\* that view or by "Start Over" to the home view.
NavigationStep ==
  /\ currentView # "analysis" /\ currentView' = "analysis"
       => previousView' = currentView
  /\ currentView = "analysis" /\ currentView' = "analysis"
       => previousView' = previousView
  /\ currentView = "analysis" /\ currentView' # "analysis"
       => \/ currentView' = previousView /\ selectedMeteor' = selectedMeteor
          \/ currentView' = "home" /\ selectedMeteor' = NoMeteor

\* C26: whenever the analysis view is current a meteor is selected and
\* previousView is "existing" or "custom", the page never renders its null
\* fallback, and "Back" from the analysis returns to the view the analysis
\* was entered from.
C26_AnalysisHasMeteor ==
  /\ [](InAnalysis /\ Rendered # "null")
  /\ [][NavigationStep]_allVars

\* "Back" from the analysis of a custom meteor: the custom view is shown
\* again and the meteor is still selected.
C26_Witness ==
  /\ currentView = "custom"
  /\ previousView = "custom"
  /\ selectedMeteor \in WizardStates

(***************************************************************************)
(* Properties of the wizard.                                               *)
(***************************************************************************)
Completes == currentView = "custom" /\ currentView' = "analysis"

\* C27: the step stays within 0..6; "Previous" at step 0 leaves it as it is;
\* "Next" below step 6 adds one to it; "Next" at step 6 leaves it as it is
\* and calls onComplete with the wizard's state, which no other step does.
C27_StepInRange ==
  /\ [](/\ wizardStep \in 0..6
        /\ prevStep(wizardStep) \in 0..6
        /\ nextStep(wizardStep).step \in 0..6
        /\ wizardStep = 0 => prevStep(wizardStep) = 0
        /\ wizardStep < 6 => /\ nextStep(wizardStep).step = wizardStep + 1
                             /\ ~nextStep(wizardStep).complete
        /\ wizardStep = 6 => /\ nextStep(wizardStep).step = 6
                             /\ nextStep(wizardStep).complete)
  /\ [][Completes => /\ wizardStep = 6
                     /\ wizardStep' = 6
                     /\ selectedMeteor' = wizardState]_allVars

\* The wizard was completed at step 6 with a diameter other than the default.
C27_Witness ==
  /\ currentView = "analysis"
  /\ wizardStep = 6
  /\ selectedMeteor = wizardState
  /\ selectedMeteor.diameter_m = Lit(3700)

Within(n, range) ==
  /\ n.k = "fin"
  /\ n.s = 1
  /\ range.min.l <= n.l
  /\ n.l <= range.max.l

InRange(st) ==
  /\ Within(st.diameter_m, DIAMETER)
  /\ Within(st.velocity_kms, VELOCITY)
  /\ Within(st.angle_deg, ANGLE)
  /\ Within(st.density_kgm3, DENSITY)

Fields ==
  {"diameter_m", "velocity_kms", "angle_deg", "density_kgm3", "impactLocation"}
Edited == {f \in Fields : wizardState'[f] # wizardState[f]}

\* C28: after any edits with finite numbers the diameter is within
\* [10, 10000], the velocity within [12, 72], the angle within [5, 90] and the
\* density within [1000, 8000]; an edit changes the field of its step and no
\* other; the inputs the wizard passes to calculateImpact are positive and
\* within these ranges, the velocity times 1000.
C28_FieldsInRange ==
  /\ [](/\ InRange(wizardState)
        /\ Called /\ currentView = "custom" =>
             /\ Within(inputs.diameter, DIAMETER)
             /\ Within(inputs.density, DENSITY)
             /\ Within(inputs.angle, ANGLE)
             /\ inputs.velocity.k = "fin" /\ inputs.velocity.s = 1
             /\ inputs.velocity.l >= VELOCITY.min.l + 3000
             /\ inputs.velocity.l <= VELOCITY.max.l + 3000)
  /\ [][/\ Cardinality(Edited) <= 1
        /\ "diameter_m" \in Edited => wizardStep = 0
        /\ "velocity_kms" \in Edited => wizardStep = 1
        /\ "angle_deg" \in Edited => wizardStep = 2
        /\ "density_kgm3" \in Edited => wizardStep = 3]_allVars

\* Every field was edited with a number outside its range, clamped to the
\* nearer end of the range, and the results were calculated.
C28_Witness ==
  /\ wizardState.diameter_m = DIAMETER.max
  /\ wizardState.velocity_kms = VELOCITY.min
  /\ wizardState.angle_deg = ANGLE.max
  /\ wizardState.density_kgm3 = DENSITY.max
  /\ Called
  /\ currentView = "custom"

(***************************************************************************)
(* Properties of the star field.                                           *)
(***************************************************************************)
PoolIds == {poolRef[i].id : i \in 1..Len(poolRef)}
Place(id) == CHOOSE i \in 1..Len(poolRef) : poolRef[i].id = id

====
